---- MODULE Spec2Model ----
(***************************************************************************)
(* Verification model of the fleet engine: the LoadBalancer                *)
(* (src/src/core/LoadBalancer.cpp), the MultiCoreEngine workers            *)
(* (src/src/core/MultiCoreEngine.cpp) and the lock-free queue              *)
(* (src/src/sync/lockfree_structures.cpp).  Each component has its own     *)
(* specification over its own variables; the others' variables stay put.   *)
(***************************************************************************)
EXTENDS Integers, Sequences, FiniteSets, TLC

(***************************************************************************)
(* Bounds of the model.                                                    *)
(***************************************************************************)
NumCores == 2
MaxTasks == 1
StackDepth == 1
QueueCap == 2

Cores == 0 .. (NumCores - 1)
\* static_cast<size_t>(-1): "no core"
NoCore == -1
\* std::numeric_limits<double>::max(), in the model's load unit
DoubleMax == 1000000

Range(s) == {s[i] : i \in 1 .. Len(s)}

VARIABLES
    \* ---- LoadBalancer ----
    core_order,      \* iteration order of the unordered_map core_metrics_
    core_metrics_,   \* core_id -> [cpu, mem, net, is_healthy]
    tasks_,          \* task_id -> [type, assigned_core]
    task_status_,    \* task_id -> TaskStatus
    net_tasks,       \* NetworkManager/StorageManager: per-core submitted task ids
    net_status,      \* NetworkManager/StorageManager: task_id -> TaskStatus
    task_mutex_,     \* owner of task_mutex_ (a thread or NoThread)
    metrics_mutex_,  \* owner of metrics_mutex_
    pc,              \* per thread: where it is inside a LoadBalancer call
    pending,         \* per thread: loop state of the call in progress
    result,          \* per thread: outcome of its last finished call
    relock,          \* what locking a std::mutex the thread already owns does
    crashed,         \* the process died (stack overflow)
    returned,        \* ids submit_task has returned to a caller
    \* ---- core selection on a given snapshot ----
    sel_order,       \* iteration order of the snapshot's core_metrics_
    sel_metrics,     \* the snapshot: core_id -> [cpu, mem, net, is_healthy]
    sel_called,      \* find_least_loaded_core has run on this snapshot
    sel_result,      \* what it returned
    \* ---- MultiCoreEngine ----
    system_running_, \* MultiCoreEngine::system_running_
    running,         \* core_id -> cores_[i].running
    paused,          \* core_id -> cores_[i].paused
    task_queue,      \* core_id -> cores_[i].task_queue (task ids, oldest first)
    worker_pc,       \* core_id -> where the core's worker thread is
    worker_task,     \* core_id -> the task the worker popped (0: none)
    hcf_pc,          \* thread -> where it is inside handle_core_failure
    hcf_core,        \* thread -> the core_id it was called with
    hcf_i,           \* thread -> loop index of redistribute_tasks' first loop
    failed_tasks,    \* thread -> the local vector of redistribute_tasks
    ctl_pc,          \* where the thread that calls start/stop/pause/resume is
    ctl_i,           \* loop index of stop()
    next_task,       \* next task id handed to submit_task
    executed,        \* tasks whose execute() was called and is over
    moved,           \* task -> times redistribute_tasks submitted it again
    ext_calls,       \* the last handle_core_failure calls of the outside thread
    engine_crashed,  \* the process died (null task dereferenced)
    at_stop,         \* the tasks that were queued when stop() was last called
    task_failed,     \* the tasks marked Failed
    cancelled,       \* the tasks cancel_task has marked Cancelled
    \* ---- LockFreeQueue ----
    head_,           \* LockFreeQueue::head_ (a node address)
    tail_,           \* LockFreeQueue::tail_
    node_data,       \* address -> Node::data
    node_next,       \* address -> Node::next
    node_live,       \* address -> the node is allocated (not yet deleted)
    enq_pc,          \* producer -> where it is inside enqueue
    enq_node,        \* producer -> new_node
    enq_tail,        \* producer -> local tail
    enq_next,        \* producer -> local next
    deq_pc,          \* where the consumer is inside dequeue
    deq_head,        \* the consumer's local head
    deq_tail,        \* the consumer's local tail
    deq_next,        \* the consumer's local next
    deq_final,       \* the running dequeue began after every enqueue returned
    popped,          \* the values dequeue has returned, in order
    drained,         \* a dequeue that began after every enqueue found the queue empty
    queue_ns,        \* which LockFreeQueue: core::lockfree or core::concurrency
    deq_result,      \* how the consumer's last dequeue ended
    enq_before,      \* producer -> the producers whose enqueue had returned when its own began
    \* ---- LockFreeStack ----
    stack_head_,     \* LockFreeStack::head_
    stack_data,      \* address -> Node::data
    stack_next,      \* address -> Node::next
    stack_live,      \* address -> allocated and not deleted
    push_pc,         \* pusher -> position in push
    push_node,       \* pusher -> new_node
    pop_pc,          \* popper -> position in pop
    pop_old,         \* popper -> old_head
    pop_next,        \* popper -> the value read from old_head->next
    pop_final,       \* popper -> its running pop began after every push returned
    stack_popped,    \* the values pop has returned, in order of return
    stack_drained,   \* a pop that began after every push returned false
    \* ---- RCUGuard ----
    version_,        \* thread -> its thread_local RCUGuard::version_
    rcu_pc,          \* thread -> position in synchronize
    rcu_cur,         \* thread -> current_version of synchronize
    rcu_guards,      \* thread -> RCUGuard objects alive
    \* ---- HierarchicalLock ----
    lock_,             \* lock object -> HierarchicalLock::lock_ (0 when free)
    current_hierarchy, \* thread -> its thread_local current_hierarchy
    hl_pc,             \* thread -> where it is inside lock()
    hl_call,           \* thread -> the lock object and level of its call
    hl_result,         \* thread -> outcome of its last finished call
    hl_owner,          \* lock -> the thread whose lock() on it returned and was not undone (0: none)
                       \* (history, kept for the locks of the multi-lock specifications)
    \* ---- MultiCoreBlockchain ----
    tx_queue,        \* core -> Core::tx_queue
    tx_pc,           \* core -> where its worker is in process_core_transactions
    tx_cur,          \* core -> the transaction popped by its worker
    tx_processed,    \* the transactions process_transaction() has completed
    tx_failures,     \* core -> number of handle_core_failure(core) calls
    tx_next          \* next transaction id handed out

lbvars == <<core_order, core_metrics_, tasks_, task_status_, net_tasks, net_status,
            task_mutex_, metrics_mutex_, pc, pending, result, relock,
            crashed, returned>>

selvars == <<sel_order, sel_metrics, sel_called, sel_result>>

engvars == <<system_running_, running, paused, task_queue, worker_pc,
             worker_task, hcf_pc, hcf_core, hcf_i, failed_tasks, ctl_pc, ctl_i,
             next_task, executed, moved, ext_calls, engine_crashed, at_stop,
             task_failed, cancelled>>

quvars == <<head_, tail_, node_data, node_next, node_live, enq_pc, enq_node,
            enq_tail, enq_next, enq_before, deq_pc, deq_head, deq_tail,
            deq_next, deq_final, popped, drained, queue_ns, deq_result>>

hlvars == <<lock_, current_hierarchy, hl_pc, hl_call, hl_result, hl_owner>>

txvars == <<tx_queue, tx_pc, tx_cur, tx_processed, tx_failures, tx_next>>

stvars == <<stack_head_, stack_data, stack_next, stack_live, push_pc,
            push_node, pop_pc, pop_old, pop_next, pop_final, stack_popped,
            stack_drained>>

rcuvars == <<version_, rcu_pc, rcu_cur, rcu_guards>>

\* LoadBalancer: running_, paused_, compute_engine_ (set or null), the
\* monitoring threads and their position in monitor_cores
VARIABLES running_, paused_, compute_engine_, mon_pc, mon_i, lb_stopped

monvars == <<running_, paused_, compute_engine_, mon_pc, mon_i, lb_stopped>>

\* NetworkManager: cores_ (core -> its NetworkCore object), connections_
\* (connection id -> the Connection made by the n-th connect), and the outcome
\* of the callers' last calls
VARIABLES cores_, net_objects, connections_, conn_opened, conn_id, conn_state,
          parent_result

nmvars == <<cores_, net_objects, connections_, conn_opened, conn_id, conn_state,
            parent_result>>

vars == <<lbvars, selvars, engvars, quvars, hlvars, txvars, stvars, rcuvars, monvars, nmvars>>

\* what the NetworkManager's operations leave alone
nonnm == <<lbvars, selvars, engvars, quvars, hlvars, txvars, stvars, rcuvars, monvars>>
\* what neither the LoadBalancer's operations nor its monitoring thread touch
nonmon == <<selvars, engvars, quvars, hlvars, txvars, stvars, rcuvars, nmvars>>
\* what the LoadBalancer's operations leave alone
nonlb == <<selvars, engvars, quvars, hlvars, txvars, stvars, rcuvars, monvars, nmvars>>
\* what a run of the selection routine on a snapshot leaves alone
nonsel == <<lbvars, engvars, quvars, hlvars, txvars, stvars, rcuvars, monvars, nmvars>>
\* what the MultiCoreEngine's operations leave alone
noneng == <<lbvars, selvars, quvars, hlvars, txvars, stvars, rcuvars, monvars, nmvars>>
\* what the LockFreeQueue's operations leave alone
nonqu == <<lbvars, selvars, engvars, hlvars, txvars, stvars, rcuvars, monvars, nmvars>>
\* what the HierarchicalLock's operations leave alone
nonhl == <<lbvars, selvars, engvars, quvars, txvars, stvars, rcuvars, monvars, nmvars>>
\* what the MultiCoreBlockchain's operations leave alone
nontx == <<lbvars, selvars, engvars, quvars, hlvars, stvars, rcuvars, monvars, nmvars>>
\* what the LockFreeStack's operations leave alone
nonst == <<lbvars, selvars, engvars, quvars, hlvars, txvars, rcuvars, monvars, nmvars>>
\* what the RCUGuard's operations leave alone
nonrcu == <<lbvars, selvars, engvars, quvars, hlvars, txvars, stvars, monvars, nmvars>>

(***************************************************************************)
(* LoadBalancer                                                            *)
(***************************************************************************)
Threads == {"caller"}
NoThread == "none"

\* Usage values are tenths (9 is 0.9); the snapshots callers report.
MetricInputs ==
    { [cpu |-> 0, mem |-> 0, net |-> 0],
      [cpu |-> 9, mem |-> 0, net |-> 0] }

\* Task::assigned_core is whatever the caller left in the Task it passes.
AssignedInputs == Cores
TaskTypes == {"NETWORK"}

NoResult == [op |-> "none", status |-> "none", id |-> 0, core |-> NoCore]
NoPending == [core |-> NoCore, cores |-> <<>>, depth |-> 0]

\* 0.4*cpu + 0.3*mem + 0.3*net, in hundredths of tenths
Load(m) == m.cpu * 4 + m.mem * 3 + m.net * 3

\* the loop of find_least_loaded_core over core_metrics_, in iteration order
RECURSIVE FindLoop(_, _, _, _, _)
FindLoop(order, metrics, i, least_loaded_core, min_load) ==
    IF i > Len(order) THEN least_loaded_core
    ELSE LET core_id == order[i]
             m == metrics[core_id]
         IN  IF ~m.is_healthy
             THEN FindLoop(order, metrics, i + 1, least_loaded_core, min_load)
             ELSE IF Load(m) < min_load
                  THEN FindLoop(order, metrics, i + 1, core_id, Load(m))
                  ELSE FindLoop(order, metrics, i + 1, least_loaded_core, min_load)

\* (mutant: the is_healthy test of line 142 is missing)
find_least_loaded_any_core(order, metrics) ==
    FindLoop(order, [c \in DOMAIN metrics |-> [metrics[c] EXCEPT !.is_healthy = TRUE]],
             1, NoCore, DoubleMax)

find_least_loaded_core(order, metrics) ==
    FindLoop(order, metrics, 1, NoCore, DoubleMax)

get_task_status(task_id) ==
    IF task_id \in DOMAIN task_status_ THEN task_status_[task_id] ELSE "UNKNOWN"

\* NetworkManager::submit_task / StorageManager::submit_task: the task goes to
\* core task_id % cores_.size()
NetSubmit(q, task_id) ==
    LET target_core == task_id % NumCores
    IN  [q EXCEPT ![target_core] = Append(@, task_id)]

\* NetworkManager::submit_task, line 169 (StorageManager, line 153):
\* task_status_[task_id] = PENDING, whatever the status was
NetSubmitStatus(st, ids) ==
    [task_id \in DOMAIN st \cup ids |->
        IF task_id \in ids THEN "PENDING" ELSE st[task_id]]

\* NetworkManager::cancel_task, lines 183-195: a task the manager holds gets
\* status CANCELLED
NetCancelStatus(st, task_id) ==
    IF task_id \in DOMAIN st THEN [st EXCEPT ![task_id] = "CANCELLED"] ELSE st

\* rebalance_load's scan: the cores over 0.8 in cpu, memory or network
RECURSIVE OverloadedCores(_, _, _)
OverloadedCores(order, metrics, i) ==
    IF i > Len(order) THEN <<>>
    ELSE LET m == metrics[order[i]]
         IN  (IF m.cpu > 8 \/ m.mem > 8 \/ m.net > 8 THEN <<order[i]>> ELSE <<>>)
             \o OverloadedCores(order, metrics, i + 1)

\* redistribute_tasks' scan: the tasks assigned to failed_core_id
FailedTasks(failed_core_id) ==
    {task_id \in DOMAIN tasks_ : tasks_[task_id].assigned_core = failed_core_id}

\* redistribute_tasks' second loop over failed_tasks (given in iteration order):
\* the task is re-assigned and submitted again
RECURSIVE Resubmit(_, _, _, _)
Resubmit(failed, target_core, tk, q) ==
    IF failed = <<>> THEN [tasks |-> tk, queues |-> q]
    ELSE IF target_core # NoCore
         THEN Resubmit(Tail(failed), target_core,
                       [tk EXCEPT ![Head(failed)].assigned_core = target_core],
                       NetSubmit(q, Head(failed)))
         ELSE Resubmit(Tail(failed), target_core, tk, q)

Orderings(S) ==
    {s \in [1 .. Cardinality(S) -> S] : \A i, j \in DOMAIN s : i # j => s[i] # s[j]}

LBInit ==
    /\ core_order = <<>>
    /\ core_metrics_ = <<>>
    /\ tasks_ = <<>>
    /\ task_status_ = <<>>
    /\ net_tasks = [c \in Cores |-> <<>>]
    /\ net_status = <<>>
    /\ task_mutex_ = NoThread
    /\ metrics_mutex_ = NoThread
    /\ pc = [t \in Threads |-> "idle"]
    /\ pending = [t \in Threads |-> NoPending]
    /\ result = NoResult
    /\ relock \in {"deadlock", "throw", "proceed"}
    /\ crashed = FALSE
    /\ returned = {}

\* the call of thread t is over: it returned or threw
Finish(t, op, status, id, core_id) ==
    /\ pc' = [pc EXCEPT ![t] = "idle"]
    /\ pending' = [pending EXCEPT ![t] = NoPending]
    /\ result' = [op |-> op, status |-> status, id |-> id, core |-> core_id]

\* core_metrics_[core_id] = metrics (line 161): last write wins
StoreMetrics(metrics, core_id, entry) ==
    IF core_id \in DOMAIN metrics
    THEN [metrics EXCEPT ![core_id] = entry]
    ELSE (core_id :> entry) @@ metrics

\* ... and a new key lands anywhere in the unordered_map's iteration order
StoreOrders(order, core_id) ==
    IF core_id \in Range(order)
    THEN {order}
    ELSE {SubSeq(order, 1, k) \o <<core_id>> \o SubSeq(order, k + 1, Len(order)) :
             k \in 0 .. Len(order)}

Entry(m, healthy) ==
    [cpu |-> m.cpu, mem |-> m.mem, net |-> m.net, is_healthy |-> healthy]

\* update_core_metrics, lines 159-162
UpdateCoreMetrics(t, core_id, m, healthy) ==
    /\ UNCHANGED nonlb
    /\ ~crashed
    /\ pc[t] = "idle"
    /\ metrics_mutex_ = NoThread
    /\ core_metrics_' = StoreMetrics(core_metrics_, core_id, Entry(m, healthy))
    /\ core_order' \in StoreOrders(core_order, core_id)
    /\ result' = NoResult
    /\ UNCHANGED <<tasks_, task_status_, net_tasks, net_status, task_mutex_, metrics_mutex_,
                   pc, pending, relock, crashed, returned>>

\* submit_task, line 71: task_mutex_ is taken
SubmitLock(t) ==
    /\ UNCHANGED nonlb
    /\ ~crashed
    /\ pc[t] = "idle"
    /\ task_mutex_ = NoThread
    /\ Len(tasks_) < MaxTasks
    /\ task_mutex_' = t
    /\ pc' = [pc EXCEPT ![t] = "submit_find"]
    /\ UNCHANGED <<core_order, core_metrics_, tasks_, task_status_, net_tasks, net_status,
                   metrics_mutex_, pending, result, relock, crashed, returned>>

\* (mutant: line 84 is missing, the status is not recorded)
SubmitStoreWithoutStatus(task_id, task) ==
    [tasks |-> Append(tasks_, task),
     status |-> task_status_,
     queues |-> NetSubmit(net_tasks, task_id)]

\* the tables and queues submit_task leaves behind when target_core was found
SubmitStore(task_id, task) ==
    [tasks |-> Append(tasks_, task),
     status |-> Append(task_status_, "PENDING"),
     queues |-> NetSubmit(net_tasks, task_id)]

\* (mutant: the task is stored at lines 83-84 before the check of line 75)
SubmitBodyStoreFirst(t, task) ==
    /\ UNCHANGED nonlb
    /\ ~crashed
    /\ pc[t] = "submit_find"
    /\ metrics_mutex_ = NoThread
    /\ LET target_core == find_least_loaded_core(core_order, core_metrics_)
           task_id == Len(tasks_) + 1
       IN  /\ tasks_' = Append(tasks_, task)
           /\ task_status_' = Append(task_status_, "PENDING")
           /\ IF target_core = NoCore
              THEN /\ Finish(t, "submit_task", "NoAvailableCore", 0, NoCore)
                   /\ UNCHANGED <<net_tasks, net_status, returned>>
              ELSE /\ net_tasks' = NetSubmit(net_tasks, task_id)
                   /\ net_status' = NetSubmitStatus(net_status, {task_id})
                   /\ returned' = returned \cup {task_id}
                   /\ Finish(t, "submit_task", "ok", task_id, NoCore)
    /\ task_mutex_' = NoThread
    /\ UNCHANGED <<core_order, core_metrics_, metrics_mutex_, relock, crashed>>

\* submit_task, lines 74-98: find_least_loaded_core under metrics_mutex_, then
\* either the throw or the store and the dispatch
SubmitBody(t, task) ==
    /\ UNCHANGED nonlb
    /\ ~crashed
    /\ pc[t] = "submit_find"
    /\ metrics_mutex_ = NoThread
    /\ LET target_core == find_least_loaded_core(core_order, core_metrics_)
           task_id == Len(tasks_) + 1
           stored == SubmitStore(task_id, task)
       IN  IF target_core = NoCore
           THEN /\ Finish(t, "submit_task", "NoAvailableCore", 0, NoCore)
                /\ UNCHANGED <<tasks_, task_status_, net_tasks, net_status, returned>>
           ELSE /\ tasks_' = stored.tasks
                /\ task_status_' = stored.status
                /\ net_tasks' = stored.queues
                /\ net_status' = NetSubmitStatus(net_status, {task_id})
                /\ returned' = returned \cup {task_id}
                /\ Finish(t, "submit_task", "ok", task_id, NoCore)
    /\ task_mutex_' = NoThread
    /\ UNCHANGED <<core_order, core_metrics_, metrics_mutex_, relock, crashed>>

\* (mutant: line 121 is missing, the status is left as it was)
CancelStatusUnchanged(task_id) ==
    task_status_

\* cancel_task, line 121: task_status_[task_id] = TaskStatus::CANCELLED
CancelStatus(task_id) ==
    [task_status_ EXCEPT ![task_id] = "CANCELLED"]

\* cancel_task, lines 101-122, under task_mutex_: an id that is not in tasks_
\* returns at once; else the engine or manager of the task's type is told to
\* cancel it (its own tables, not the LoadBalancer's) and the status is set
CancelTask(t, task_id) ==
    /\ UNCHANGED nonlb
    /\ ~crashed
    /\ pc[t] = "idle"
    /\ task_mutex_ = NoThread
    /\ task_status_' = IF task_id \in DOMAIN tasks_
                       THEN CancelStatus(task_id)
                       ELSE task_status_
    /\ net_status' = IF task_id \in DOMAIN tasks_
                     THEN NetCancelStatus(net_status, task_id)
                     ELSE net_status
    /\ Finish(t, "cancel_task", "ok", task_id, NoCore)
    /\ UNCHANGED <<core_order, core_metrics_, tasks_, net_tasks, task_mutex_,
                   metrics_mutex_, relock, crashed, returned>>

\* mark_core_unhealthy, lines 171-175: under metrics_mutex_ the entry is marked
\* and handle_core_failure is called, whose first statement (line 300) calls
\* mark_core_unhealthy again
MarkCoreUnhealthy(t, core_id) ==
    /\ UNCHANGED nonlb
    /\ ~crashed
    /\ pc[t] = "idle"
    /\ metrics_mutex_ = NoThread
    /\ IF core_id \in DOMAIN core_metrics_
       THEN /\ core_metrics_' = [core_metrics_ EXCEPT ![core_id].is_healthy = FALSE]
            /\ metrics_mutex_' = t
            /\ pc' = [pc EXCEPT ![t] = "mark_relock"]
            /\ pending' = [pending EXCEPT ![t].core = core_id, ![t].depth = 1]
            /\ UNCHANGED result
       ELSE /\ Finish(t, "mark_core_unhealthy", "ok", 0, core_id)
            /\ UNCHANGED <<core_metrics_, metrics_mutex_>>
    /\ UNCHANGED <<core_order, tasks_, task_status_, net_tasks, net_status, task_mutex_,
                   relock, crashed, returned>>

\* handle_core_failure -> mark_core_unhealthy, line 171 again: the thread locks
\* the std::mutex it owns.  The build decides: it blocks for ever, lock() throws
\* std::system_error, or the lock is granted and the two functions recurse
\* until the stack is exhausted.  Lines 303-306 are never reached.
MarkRelock(t) ==
    /\ UNCHANGED nonlb
    /\ ~crashed
    /\ pc[t] = "mark_relock"
    /\ \/ /\ relock = "deadlock"
          /\ pc' = [pc EXCEPT ![t] = "mark_deadlocked"]
          /\ UNCHANGED <<metrics_mutex_, pending, result, crashed>>
       \/ /\ relock = "throw"
          /\ metrics_mutex_' = NoThread
          /\ Finish(t, "mark_core_unhealthy", "system_error", 0, pending[t].core)
          /\ UNCHANGED crashed
       \/ /\ relock = "proceed"
          /\ IF pending[t].depth >= StackDepth
             THEN /\ crashed' = TRUE
                  /\ UNCHANGED <<pending, pc>>
             ELSE /\ pending' = [pending EXCEPT ![t].depth = @ + 1]
                  /\ UNCHANGED <<crashed, pc>>
          /\ UNCHANGED <<metrics_mutex_, result>>
    /\ UNCHANGED <<core_order, core_metrics_, tasks_, task_status_, net_tasks, net_status,
                   task_mutex_, relock, returned>>

\* rebalance_load, lines 206-216: under metrics_mutex_, collect overloaded cores
RebalanceLock(t) ==
    /\ UNCHANGED nonlb
    /\ ~crashed
    /\ pc[t] = "idle"
    /\ metrics_mutex_ = NoThread
    /\ metrics_mutex_' = t
    /\ pc' = [pc EXCEPT ![t] = "rebalance_loop"]
    /\ pending' = [pending EXCEPT ![t].cores =
                      OverloadedCores(core_order, core_metrics_, 1)]
    /\ UNCHANGED <<core_order, core_metrics_, tasks_, task_status_, net_tasks, net_status,
                   task_mutex_, result, relock, crashed, returned>>

\* rebalance_load, lines 219-222, and redistribute_tasks, lines 310-318
RebalanceNext(t) ==
    /\ UNCHANGED nonlb
    /\ ~crashed
    /\ pc[t] = "rebalance_loop"
    /\ IF pending[t].cores = <<>>
       THEN /\ metrics_mutex_' = NoThread
            /\ Finish(t, "rebalance_load", "ok", 0, NoCore)
            /\ UNCHANGED task_mutex_
       ELSE /\ task_mutex_ = NoThread
            /\ IF FailedTasks(Head(pending[t].cores)) = {}
               THEN /\ pending' = [pending EXCEPT ![t].cores = Tail(@)]
                    /\ UNCHANGED <<task_mutex_, pc>>
               ELSE /\ task_mutex_' = t
                    /\ pc' = [pc EXCEPT ![t] = "redistribute_relock"]
                    /\ pending' = [pending EXCEPT ![t].core = Head(pending[t].cores)]
            /\ UNCHANGED <<metrics_mutex_, result>>
    /\ UNCHANGED <<core_order, core_metrics_, tasks_, task_status_, net_tasks, net_status,
                   relock, crashed, returned>>

\* redistribute_tasks, lines 321-338, called with metrics_mutex_ held: line 322
\* (find_least_loaded_core) locks metrics_mutex_ again
RedistributeRelock(t) ==
    /\ UNCHANGED nonlb
    /\ ~crashed
    /\ pc[t] = "redistribute_relock"
    /\ \/ /\ relock = "deadlock"
          /\ pc' = [pc EXCEPT ![t] = "redistribute_deadlocked"]
          /\ UNCHANGED <<metrics_mutex_, task_mutex_, pending, result, tasks_,
                         net_tasks, net_status>>
       \/ /\ relock = "throw"
          /\ metrics_mutex_' = NoThread
          /\ task_mutex_' = NoThread
          /\ Finish(t, "rebalance_load", "system_error", 0, NoCore)
          /\ UNCHANGED <<tasks_, net_tasks, net_status>>
       \/ /\ relock = "proceed"
          /\ \A c \in Cores :
                Len(net_tasks[c]) + Cardinality(FailedTasks(pending[t].core)) <= QueueCap
          /\ \E failed \in Orderings(FailedTasks(pending[t].core)) :
                LET target_core == find_least_loaded_core(core_order, core_metrics_)
                    after == Resubmit(failed, target_core, tasks_, net_tasks)
                IN  /\ tasks_' = after.tasks
                    /\ net_tasks' = after.queues
                    /\ net_status' =
                           IF target_core = NoCore THEN net_status
                           ELSE NetSubmitStatus(net_status, Range(failed))
          /\ task_mutex_' = NoThread
          /\ pc' = [pc EXCEPT ![t] = "rebalance_loop"]
          /\ pending' = [pending EXCEPT ![t].cores = Tail(@), ![t].core = NoCore]
          /\ UNCHANGED <<metrics_mutex_, result>>
    /\ UNCHANGED <<core_order, core_metrics_, task_status_, relock, crashed,
                   returned>>

\* the ids a caller passes: those submit_task can return and one it cannot
TaskIdInputs == 1 .. (MaxTasks + 1)

LBNext ==
    \E t \in Threads :
        \/ \E core_id \in Cores, m \in MetricInputs, healthy \in BOOLEAN :
              UpdateCoreMetrics(t, core_id, m, healthy)
        \/ SubmitLock(t)
        \/ \E assigned \in AssignedInputs, type \in TaskTypes :
              SubmitBody(t, [type |-> type, assigned_core |-> assigned])
        \/ \E core_id \in Cores : MarkCoreUnhealthy(t, core_id)
        \/ MarkRelock(t)
        \/ RebalanceLock(t)
        \/ RebalanceNext(t)
        \/ RedistributeRelock(t)

(***************************************************************************)
(* The core-selection routine on a given CoreMetrics snapshot              *)
(***************************************************************************)
NumSelCores == 3
SelCores == 0 .. (NumSelCores - 1)

SelSnapshots ==
    { [cpu |-> 0, mem |-> 0, net |-> 0],
      [cpu |-> 9, mem |-> 0, net |-> 0],
      [cpu |-> 0, mem |-> 4, net |-> 0] }

SelEntries == {Entry(m, h) : m \in SelSnapshots, h \in BOOLEAN}

SelIdle ==
    /\ sel_order = <<>>
    /\ sel_metrics = <<>>
    /\ sel_called = FALSE
    /\ sel_result = NoCore

\* any table: any set of cores, in any iteration order, with any entries
SelInit ==
    /\ \E S \in SUBSET SelCores : sel_order \in Orderings(S)
    /\ sel_metrics \in [Range(sel_order) -> SelEntries]
    /\ sel_called = FALSE
    /\ sel_result = NoCore

\* the call at LoadBalancer.cpp line 74 (and 322)
SelectCore ==
    /\ sel_called' = TRUE
    /\ sel_result' = find_least_loaded_core(sel_order, sel_metrics)
    /\ UNCHANGED <<sel_order, sel_metrics>>
    /\ UNCHANGED nonsel

\* update_core_metrics changes the snapshot
SelUpdate(core_id, entry) ==
    /\ sel_metrics' = StoreMetrics(sel_metrics, core_id, entry)
    /\ sel_order' \in StoreOrders(sel_order, core_id)
    /\ sel_called' = FALSE
    /\ sel_result' = NoCore
    /\ UNCHANGED nonsel

SelNext ==
    \/ SelectCore
    \/ \E core_id \in SelCores, entry \in SelEntries : SelUpdate(core_id, entry)

(***************************************************************************)
(* MultiCoreEngine                                                         *)
(***************************************************************************)
EngineTasks == 1
EngineTaskIds == 1 .. EngineTasks
SizeMax == 1000000   \* numeric_limits<size_t>::max()

\* the thread outside the engine (LoadBalancer, ParentCore) that calls
\* optimize_core_performance; the workers are named by their core
Ext == NumCores
HcfThreads == Cores \cup {Ext}
NoCalls == [core |-> NoCore, n |-> 0, thrown |-> 0, before |-> {}]

EngIdle ==
    /\ system_running_ = FALSE
    /\ running = [c \in Cores |-> FALSE]
    /\ paused = [c \in Cores |-> FALSE]
    /\ task_queue = [c \in Cores |-> <<>>]
    /\ worker_pc = [c \in Cores |-> "none"]
    /\ worker_task = [c \in Cores |-> 0]
    /\ hcf_pc = [t \in HcfThreads |-> "none"]
    /\ hcf_core = [t \in HcfThreads |-> NoCore]
    /\ hcf_i = [t \in HcfThreads |-> 0]
    /\ failed_tasks = [t \in HcfThreads |-> <<>>]
    /\ ctl_pc = "idle"
    /\ ctl_i = 0
    /\ next_task = 1
    /\ executed = {}
    /\ moved = [k \in EngineTaskIds |-> 0]
    /\ ext_calls = NoCalls
    /\ engine_crashed = FALSE
    /\ at_stop = {}
    /\ task_failed = {}
    /\ cancelled = {}

\* condition_variable::notify: a worker blocked in wait re-evaluates its predicate
Notify(wp, core_id) ==
    IF wp[core_id] = "blocked" THEN [wp EXCEPT ![core_id] = "wait"] ELSE wp

RECURSIVE EngineFindLoop(_, _, _)
EngineFindLoop(i, target_core, min_load) ==
    IF i >= NumCores THEN target_core
    ELSE IF ~running[i] THEN EngineFindLoop(i + 1, target_core, min_load)
    ELSE IF Len(task_queue[i]) < min_load
         THEN EngineFindLoop(i + 1, i, Len(task_queue[i]))
         ELSE EngineFindLoop(i + 1, target_core, min_load)

\* MultiCoreEngine::find_least_loaded_core
engine_find_least_loaded_core == EngineFindLoop(0, NoCore, SizeMax)

\* submit_task(core_id, task): the task is pushed on the core's queue and the
\* core's worker is notified
EngineSubmitBounded(core_id, limit) ==
    /\ UNCHANGED noneng
    /\ UNCHANGED <<at_stop, task_failed, cancelled>>
    /\ ~engine_crashed
    /\ next_task <= limit
    /\ task_queue' = [task_queue EXCEPT ![core_id] = Append(@, next_task)]
    /\ worker_pc' = Notify(worker_pc, core_id)
    /\ next_task' = next_task + 1
    /\ UNCHANGED <<system_running_, running, paused, worker_task, hcf_pc,
                   hcf_core, hcf_i, failed_tasks, ctl_pc, ctl_i, executed,
                   moved, ext_calls, engine_crashed>>

\* the callers of this run hand EngineTasks tasks to submit_task
EngineSubmitTask(core_id) == EngineSubmitBounded(core_id, EngineTasks)

\* cancel_task(core_id, task_id) on a task that was submitted: it is marked
\* Cancelled; the queue and the worker are left alone
EngineCancelTask(task) ==
    /\ UNCHANGED noneng
    /\ ~engine_crashed
    /\ task \in 1 .. (next_task - 1)
    /\ cancelled' = cancelled \cup {task}
    /\ UNCHANGED <<system_running_, running, paused, task_queue, worker_pc,
                   worker_task, hcf_pc, hcf_core, hcf_i, failed_tasks, ctl_pc,
                   ctl_i, next_task, executed, moved, ext_calls,
                   engine_crashed, at_stop, task_failed>>

\* start(), lines 33-41
EngineStart ==
    /\ UNCHANGED noneng
    /\ UNCHANGED <<task_failed, cancelled>>
    /\ ~engine_crashed
    /\ ctl_pc = "idle"
    /\ ~system_running_
    /\ system_running_' = TRUE
    /\ at_stop' = {}
    /\ running' = [c \in Cores |-> TRUE]
    /\ worker_pc' = [c \in Cores |-> "top"]
    /\ UNCHANGED <<paused, task_queue, worker_task, hcf_pc, hcf_core, hcf_i,
                   failed_tasks, ctl_pc, ctl_i, next_task, executed, moved,
                   ext_calls, engine_crashed>>

\* stop(), lines 49-51
EngineStop ==
    /\ UNCHANGED noneng
    /\ UNCHANGED <<task_failed, cancelled>>
    /\ ~engine_crashed
    /\ ctl_pc = "idle"
    /\ system_running_
    /\ system_running_' = FALSE
    /\ at_stop' = UNION {Range(task_queue[c]) : c \in Cores}
    /\ ctl_pc' = "stop_flag"
    /\ ctl_i' = 0
    /\ UNCHANGED <<running, paused, task_queue, worker_pc, worker_task, hcf_pc,
                   hcf_core, hcf_i, failed_tasks, next_task, executed, moved,
                   ext_calls, engine_crashed>>

\* stop(), lines 54-55: running = false, notify_all
StopFlag ==
    /\ UNCHANGED noneng
    /\ UNCHANGED <<at_stop, task_failed, cancelled>>
    /\ ~engine_crashed
    /\ ctl_pc = "stop_flag"
    /\ running' = [running EXCEPT ![ctl_i] = FALSE]
    /\ worker_pc' = Notify(worker_pc, ctl_i)
    /\ ctl_pc' = "stop_join"
    /\ UNCHANGED <<system_running_, paused, task_queue, worker_task, hcf_pc,
                   hcf_core, hcf_i, failed_tasks, ctl_i, next_task, executed,
                   moved, ext_calls, engine_crashed>>

\* stop(), lines 56-58: join returns once the worker has left worker_thread
StopJoin ==
    /\ UNCHANGED noneng
    /\ UNCHANGED <<at_stop, task_failed, cancelled>>
    /\ ~engine_crashed
    /\ ctl_pc = "stop_join"
    /\ worker_pc[ctl_i] \in {"exited", "none"}
    /\ worker_pc' = [worker_pc EXCEPT ![ctl_i] = "none"]
    /\ IF ctl_i + 1 < NumCores
       THEN /\ ctl_i' = ctl_i + 1
            /\ ctl_pc' = "stop_flag"
       ELSE /\ ctl_i' = 0
            /\ ctl_pc' = "idle"
    /\ UNCHANGED <<system_running_, running, paused, task_queue, worker_task,
                   hcf_pc, hcf_core, hcf_i, failed_tasks, next_task, executed,
                   moved, ext_calls, engine_crashed>>

\* pause(), lines 67-70
EnginePause ==
    /\ UNCHANGED noneng
    /\ UNCHANGED <<at_stop, task_failed, cancelled>>
    /\ ~engine_crashed
    /\ ctl_pc = "idle"
    /\ paused' = [c \in Cores |-> TRUE]
    /\ UNCHANGED <<system_running_, running, task_queue, worker_pc, worker_task,
                   hcf_pc, hcf_core, hcf_i, failed_tasks, ctl_pc, ctl_i,
                   next_task, executed, moved, ext_calls, engine_crashed>>

\* resume(), lines 74-78
EngineResume ==
    /\ UNCHANGED noneng
    /\ UNCHANGED <<at_stop, task_failed, cancelled>>
    /\ ~engine_crashed
    /\ ctl_pc = "idle"
    /\ paused' = [c \in Cores |-> FALSE]
    /\ worker_pc' = [c \in Cores |-> Notify(worker_pc, c)[c]]
    /\ UNCHANGED <<system_running_, running, task_queue, worker_task, hcf_pc,
                   hcf_core, hcf_i, failed_tasks, ctl_pc, ctl_i, next_task,
                   executed, moved, ext_calls, engine_crashed>>

\* worker_thread, line 115: while (core.running)
WorkerLoop(core_id) ==
    /\ UNCHANGED noneng
    /\ UNCHANGED <<at_stop, task_failed, cancelled>>
    /\ ~engine_crashed
    /\ worker_pc[core_id] = "top"
    /\ worker_pc' = [worker_pc EXCEPT
                       ![core_id] = IF running[core_id] THEN "wait" ELSE "exited"]
    /\ UNCHANGED <<system_running_, running, paused, task_queue, worker_task,
                   hcf_pc, hcf_core, hcf_i, failed_tasks, ctl_pc, ctl_i,
                   next_task, executed, moved, ext_calls, engine_crashed>>

\* worker_thread, lines 117-119: cv.wait evaluates its predicate
WorkerWait(core_id) ==
    /\ UNCHANGED noneng
    /\ UNCHANGED <<at_stop, task_failed, cancelled>>
    /\ ~engine_crashed
    /\ worker_pc[core_id] = "wait"
    /\ worker_pc' = [worker_pc EXCEPT
                       ![core_id] = IF \/ ~running[core_id]
                                       \/ (~paused[core_id] /\ task_queue[core_id] # <<>>)
                                    THEN "woken" ELSE "to_block"]
    /\ UNCHANGED <<system_running_, running, paused, task_queue, worker_task,
                   hcf_pc, hcf_core, hcf_i, failed_tasks, ctl_pc, ctl_i,
                   next_task, executed, moved, ext_calls, engine_crashed>>

\* worker_thread, line 117: the predicate was false, the thread blocks on cv
WorkerBlock(core_id) ==
    /\ UNCHANGED noneng
    /\ UNCHANGED <<at_stop, task_failed, cancelled>>
    /\ ~engine_crashed
    /\ worker_pc[core_id] = "to_block"
    /\ worker_pc' = [worker_pc EXCEPT ![core_id] = "blocked"]
    /\ UNCHANGED <<system_running_, running, paused, task_queue, worker_task,
                   hcf_pc, hcf_core, hcf_i, failed_tasks, ctl_pc, ctl_i,
                   next_task, executed, moved, ext_calls, engine_crashed>>

\* worker_thread, lines 121-127
WorkerWoken(core_id) ==
    /\ UNCHANGED noneng
    /\ UNCHANGED <<at_stop, task_failed, cancelled>>
    /\ ~engine_crashed
    /\ worker_pc[core_id] = "woken"
    /\ worker_pc' = [worker_pc EXCEPT
                       ![core_id] = IF ~running[core_id] THEN "exited"
                                    ELSE IF paused[core_id] THEN "top"
                                    ELSE "drain"]
    /\ UNCHANGED <<system_running_, running, paused, task_queue, worker_task,
                   hcf_pc, hcf_core, hcf_i, failed_tasks, ctl_pc, ctl_i,
                   next_task, executed, moved, ext_calls, engine_crashed>>

\* worker_thread, line 130: while (!core.task_queue.empty())
WorkerEmpty(core_id) ==
    /\ UNCHANGED noneng
    /\ UNCHANGED <<at_stop, task_failed, cancelled>>
    /\ ~engine_crashed
    /\ worker_pc[core_id] \in {"drain", "drain_next"}
    /\ worker_pc' = [worker_pc EXCEPT
                       ![core_id] = IF task_queue[core_id] = <<>>
                                    THEN "optimize" ELSE "pop"]
    /\ UNCHANGED <<system_running_, running, paused, task_queue, worker_task,
                   hcf_pc, hcf_core, hcf_i, failed_tasks, ctl_pc, ctl_i,
                   next_task, executed, moved, ext_calls, engine_crashed>>

\* worker_thread, lines 131-133: pop; on a queue emptied since line 130 the
\* popped task is null and task->execute() dereferences it
WorkerPop(core_id) ==
    /\ UNCHANGED noneng
    /\ UNCHANGED <<at_stop, task_failed, cancelled>>
    /\ ~engine_crashed
    /\ worker_pc[core_id] = "pop"
    /\ IF task_queue[core_id] = <<>>
       THEN /\ engine_crashed' = TRUE
            /\ UNCHANGED <<task_queue, worker_task, worker_pc>>
       ELSE /\ worker_task' = [worker_task EXCEPT ![core_id] = Head(task_queue[core_id])]
            /\ task_queue' = [task_queue EXCEPT ![core_id] = Tail(@)]
            /\ worker_pc' = [worker_pc EXCEPT ![core_id] = "exec"]
            /\ UNCHANGED engine_crashed
    /\ UNCHANGED <<system_running_, running, paused, hcf_pc, hcf_core, hcf_i,
                   failed_tasks, ctl_pc, ctl_i, next_task, executed, moved,
                   ext_calls>>

ExecOutcomes == {"returns", "throws"}

\* handle_core_exception(core_id, e): the task whose execute() threw is marked
\* Failed and the error is reported
handle_core_exception(task) == task_failed \cup {task}

\* worker_thread, lines 132-136: execute() returns, or throws a std::exception
\* that line 134 catches; either way the loop goes back to its test (line 130)
WorkerExecute(core_id, outcome) ==
    /\ UNCHANGED noneng
    /\ UNCHANGED <<at_stop, cancelled>>
    /\ ~engine_crashed
    /\ worker_pc[core_id] = "exec"
    /\ executed' = executed \cup {worker_task[core_id]}
    /\ task_failed' = IF outcome = "throws"
                      THEN handle_core_exception(worker_task[core_id])
                      ELSE task_failed
    /\ worker_task' = [worker_task EXCEPT ![core_id] = 0]
    /\ worker_pc' = [worker_pc EXCEPT ![core_id] = "drain_next"]
    /\ UNCHANGED <<system_running_, running, paused, task_queue, hcf_pc,
                   hcf_core, hcf_i, failed_tasks, ctl_pc, ctl_i, next_task,
                   moved, ext_calls, engine_crashed>>

\* worker_thread, line 140: optimize_core_performance -> verify_core_integrity,
\* lines 197-211: a failed verification calls handle_core_failure(core_id)
WorkerOptimize(core_id, verified) ==
    /\ UNCHANGED noneng
    /\ UNCHANGED <<at_stop, task_failed, cancelled>>
    /\ ~engine_crashed
    /\ worker_pc[core_id] = "optimize"
    /\ IF verified
       THEN /\ worker_pc' = [worker_pc EXCEPT ![core_id] = "top"]
            /\ UNCHANGED <<hcf_pc, hcf_core>>
       ELSE /\ worker_pc' = [worker_pc EXCEPT ![core_id] = "in_hcf"]
            /\ hcf_pc' = [hcf_pc EXCEPT ![core_id] = "recover"]
            /\ hcf_core' = [hcf_core EXCEPT ![core_id] = core_id]
    /\ UNCHANGED <<system_running_, running, paused, task_queue, worker_task,
                   hcf_i, failed_tasks, ctl_pc, ctl_i, next_task, executed,
                   moved, ext_calls, engine_crashed>>

\* LoadBalancer.cpp line 343 / ParentCore.cpp line 242: a thread outside the
\* engine calls optimize_core_performance(core_id); the verification fails
ExtOptimize(core_id) ==
    /\ UNCHANGED noneng
    /\ UNCHANGED <<at_stop, task_failed, cancelled>>
    /\ ~engine_crashed
    /\ hcf_pc[Ext] = "none"
    /\ hcf_pc' = [hcf_pc EXCEPT ![Ext] = "recover"]
    /\ hcf_core' = [hcf_core EXCEPT ![Ext] = core_id]
    /\ ext_calls' = IF ext_calls.core = core_id /\ ext_calls.n = 1
                    THEN ext_calls
                    ELSE [core |-> core_id, n |-> 0, thrown |-> 0,
                          before |-> Range(task_queue[core_id])]
    /\ UNCHANGED <<system_running_, running, paused, task_queue, worker_pc,
                   worker_task, hcf_i, failed_tasks, ctl_pc, ctl_i, next_task,
                   executed, moved, engine_crashed>>

\* handle_core_failure returns to its caller
HcfReturn(t, wp) ==
    /\ hcf_pc' = [hcf_pc EXCEPT ![t] = "none"]
    /\ hcf_core' = [hcf_core EXCEPT ![t] = NoCore]
    /\ worker_pc' = IF t \in Cores THEN [wp EXCEPT ![t] = "top"] ELSE wp
    /\ ext_calls' = IF t = Ext THEN [ext_calls EXCEPT !.n = @ + 1] ELSE ext_calls

\* handle_core_failure, lines 219-229: the recovery succeeds, or throws and
\* redistribute_tasks is called
HcfRecover(t, recovered) ==
    /\ UNCHANGED noneng
    /\ UNCHANGED <<at_stop, task_failed, cancelled>>
    /\ ~engine_crashed
    /\ hcf_pc[t] = "recover"
    /\ IF recovered
       THEN /\ HcfReturn(t, worker_pc)
            /\ UNCHANGED <<hcf_i, failed_tasks>>
       ELSE /\ hcf_pc' = [hcf_pc EXCEPT ![t] = "collect"]
            /\ hcf_i' = [hcf_i EXCEPT ![t] = 0]
            /\ failed_tasks' = [failed_tasks EXCEPT ![t] = <<>>]
            /\ ext_calls' = IF t = Ext THEN [ext_calls EXCEPT !.thrown = @ + 1]
                            ELSE ext_calls
            /\ UNCHANGED <<hcf_core, worker_pc>>
    /\ UNCHANGED <<system_running_, running, paused, task_queue, worker_task,
                   ctl_pc, ctl_i, next_task, executed, moved, engine_crashed>>

\* (mutant: the chain is returned but the queue keeps pointing at it)
DrainKeepsChain(q) ==
    [items |-> q, fresh |-> q]

\* TaskQueue::drain(): the queue's chain is swapped for a fresh empty one in
\* one atomic step and the previous chain is returned
Drain(q) ==
    [items |-> q, fresh |-> <<>>]

\* redistribute_tasks, lines 237-242: one iteration of the collecting loop
HcfCollect(t) ==
    /\ UNCHANGED noneng
    /\ UNCHANGED <<at_stop, task_failed, cancelled>>
    /\ ~engine_crashed
    /\ hcf_pc[t] = "collect"
    /\ LET i == hcf_i[t]
           drained_q == Drain(task_queue[i])
           collected == IF running[i] THEN failed_tasks[t]
                        ELSE failed_tasks[t] \o drained_q.items
       IN  /\ task_queue' = IF running[i] THEN task_queue
                            ELSE [task_queue EXCEPT ![i] = drained_q.fresh]
           /\ failed_tasks' = [failed_tasks EXCEPT ![t] = collected]
           /\ IF i + 1 < NumCores
              THEN /\ hcf_i' = [hcf_i EXCEPT ![t] = i + 1]
                   /\ UNCHANGED <<hcf_pc, hcf_core, worker_pc, ext_calls>>
              ELSE /\ hcf_i' = [hcf_i EXCEPT ![t] = 0]
                   /\ IF collected = <<>>
                      THEN HcfReturn(t, worker_pc)
                      ELSE /\ hcf_pc' = [hcf_pc EXCEPT ![t] = "submit"]
                           /\ UNCHANGED <<hcf_core, worker_pc, ext_calls>>
    /\ UNCHANGED <<system_running_, running, paused, worker_task, ctl_pc, ctl_i,
                   next_task, executed, moved, engine_crashed>>

MaxMoves == 2

\* redistribute_tasks, lines 245-250: one iteration of the submitting loop
HcfSubmit(t) ==
    /\ UNCHANGED noneng
    /\ UNCHANGED <<at_stop, task_failed, cancelled>>
    /\ ~engine_crashed
    /\ hcf_pc[t] = "submit"
    /\ LET task == Head(failed_tasks[t])
           rest == Tail(failed_tasks[t])
           target_core == engine_find_least_loaded_core
           wp == IF target_core # NoCore THEN Notify(worker_pc, target_core)
                 ELSE worker_pc
       IN  /\ task_queue' = IF target_core # NoCore
                            THEN [task_queue EXCEPT ![target_core] = Append(@, task)]
                            ELSE task_queue
           /\ moved' = IF target_core # NoCore /\ moved[task] < MaxMoves
                       THEN [moved EXCEPT ![task] = @ + 1]
                       ELSE moved
           /\ failed_tasks' = [failed_tasks EXCEPT ![t] = rest]
           /\ IF rest = <<>>
              THEN HcfReturn(t, wp)
              ELSE /\ worker_pc' = wp
                   /\ UNCHANGED <<hcf_pc, hcf_core, ext_calls>>
    /\ UNCHANGED <<system_running_, running, paused, worker_task, hcf_i, ctl_pc,
                   ctl_i, next_task, executed, engine_crashed>>

EngNext ==
    \/ EngineStart
    \/ EngineStop
    \/ StopFlag
    \/ StopJoin
    \/ EnginePause
    \/ EngineResume
    \/ \E core_id \in Cores :
          \/ EngineSubmitTask(core_id)
          \/ WorkerLoop(core_id)
          \/ WorkerWait(core_id)
          \/ WorkerBlock(core_id)
          \/ WorkerWoken(core_id)
          \/ WorkerEmpty(core_id)
          \/ WorkerPop(core_id)
          \/ \E outcome \in ExecOutcomes : WorkerExecute(core_id, outcome)
          \/ \E verified \in BOOLEAN : WorkerOptimize(core_id, verified)
          \/ ExtOptimize(core_id)
    \/ \E t \in HcfThreads :
          \/ \E recovered \in BOOLEAN : HcfRecover(t, recovered)
          \/ HcfCollect(t)
          \/ HcfSubmit(t)

(***************************************************************************)
(* LockFreeQueue                                                           *)
(***************************************************************************)
NumProducers == 2
\* the threads that call enqueue, each once with its own item
Producers == DOMAIN enq_pc
\* the heap: one node per enqueue and the dummy node
Addrs == DOMAIN node_live
Null == 0
Pointers == Addrs \cup {Null}

\* the queue after construction: head_ and tail_ point to one dummy node
QueueOf(n) ==
    /\ head_ = 1
    /\ tail_ = 1
    /\ node_data = [a \in 1 .. (n + 1) |-> 0]
    /\ node_next = [a \in 1 .. (n + 1) |-> Null]
    /\ node_live = [a \in 1 .. (n + 1) |-> a = 1]
    /\ enq_pc = [p \in 1 .. n |-> "idle"]
    /\ enq_node = [p \in 1 .. n |-> Null]
    /\ enq_tail = [p \in 1 .. n |-> Null]
    /\ enq_next = [p \in 1 .. n |-> Null]
    /\ enq_before = [p \in 1 .. n |-> {}]
    /\ deq_result = "none"
    /\ deq_pc = "idle"
    /\ deq_head = Null
    /\ deq_tail = Null
    /\ deq_next = Null
    /\ deq_final = FALSE
    /\ popped = <<>>
    /\ drained = FALSE

\* the two classes: lockfree_structures.cpp and advanced_synchronization.cpp
QueueClasses == {"lockfree", "concurrency"}

QuInit == QueueOf(NumProducers) /\ queue_ns = "lockfree"

\* dequeue on the empty queue, line 47: throw std::runtime_error in
\* lockfree_structures.cpp, return false in advanced_synchronization.cpp:116
EmptyResult == IF queue_ns = "lockfree" THEN "throw" ELSE "false"

\* what a load of node->next can give: the stored pointer, or, when the node
\* has been deleted, whatever the freed memory holds
LoadNext(a) == IF node_live[a] THEN {node_next[a]} ELSE Pointers

\* what a load of node->data can give
LoadData(a) == IF node_live[a] THEN {node_data[a]} ELSE Producers

\* enqueue, line 13: new Node{item, nullptr}; the allocator hands out any
\* address that is not allocated, a deleted node's address included
EnqueueNew(p) ==
    /\ UNCHANGED <<nonqu, queue_ns, deq_result>>
    /\ enq_pc[p] = "idle"
    /\ \E a \in Addrs :
          /\ ~node_live[a]
          /\ node_live' = [node_live EXCEPT ![a] = TRUE]
          /\ node_data' = [node_data EXCEPT ![a] = p]
          /\ node_next' = [node_next EXCEPT ![a] = Null]
          /\ enq_node' = [enq_node EXCEPT ![p] = a]
    /\ enq_before' = [enq_before EXCEPT
                         ![p] = {q \in Producers : enq_pc[q] = "done"}]
    /\ enq_pc' = [enq_pc EXCEPT ![p] = "load_tail"]
    /\ UNCHANGED <<head_, tail_, enq_tail, enq_next, deq_pc, deq_head, deq_tail,
                   deq_next, deq_final, popped, drained>>

\* enqueue, line 16
EnqueueLoadTail(p) ==
    /\ UNCHANGED <<nonqu, enq_before, queue_ns, deq_result>>
    /\ enq_pc[p] = "load_tail"
    /\ enq_tail' = [enq_tail EXCEPT ![p] = tail_]
    /\ enq_pc' = [enq_pc EXCEPT ![p] = "load_next"]
    /\ UNCHANGED <<head_, tail_, node_data, node_next, node_live, enq_node,
                   enq_next, deq_pc, deq_head, deq_tail, deq_next, deq_final,
                   popped, drained>>

\* enqueue, line 17
EnqueueLoadNext(p) ==
    /\ UNCHANGED <<nonqu, enq_before, queue_ns, deq_result>>
    /\ enq_pc[p] = "load_next"
    /\ \E next \in LoadNext(enq_tail[p]) :
          enq_next' = [enq_next EXCEPT ![p] = next]
    /\ enq_pc' = [enq_pc EXCEPT ![p] = "check"]
    /\ UNCHANGED <<head_, tail_, node_data, node_next, node_live, enq_node,
                   enq_tail, deq_pc, deq_head, deq_tail, deq_next, deq_final,
                   popped, drained>>

\* enqueue, lines 19-20
EnqueueCheck(p) ==
    /\ UNCHANGED <<nonqu, enq_before, queue_ns, deq_result>>
    /\ enq_pc[p] = "check"
    /\ enq_pc' = [enq_pc EXCEPT
                    ![p] = IF enq_tail[p] # tail_ THEN "load_tail"
                           ELSE IF enq_next[p] = Null THEN "cas_next"
                           ELSE "help"]
    /\ UNCHANGED <<head_, tail_, node_data, node_next, node_live, enq_node,
                   enq_tail, enq_next, deq_pc, deq_head, deq_tail, deq_next,
                   deq_final, popped, drained>>

\* enqueue, line 21: tail->next.compare_exchange(next, new_node); on a deleted
\* node the exchange reads and writes freed memory
EnqueueCasNext(p) ==
    /\ UNCHANGED <<nonqu, enq_before, queue_ns, deq_result>>
    /\ enq_pc[p] = "cas_next"
    /\ \E seen \in LoadNext(enq_tail[p]) :
          IF seen = enq_next[p]
          THEN /\ node_next' = IF node_live[enq_tail[p]]
                               THEN [node_next EXCEPT ![enq_tail[p]] = enq_node[p]]
                               ELSE node_next
               /\ enq_pc' = [enq_pc EXCEPT ![p] = "cas_tail"]
          ELSE /\ enq_pc' = [enq_pc EXCEPT ![p] = "load_tail"]
               /\ UNCHANGED node_next
    /\ UNCHANGED <<head_, tail_, node_data, node_live, enq_node, enq_tail,
                   enq_next, deq_pc, deq_head, deq_tail, deq_next, deq_final,
                   popped, drained>>

\* enqueue, lines 24-27: tail_.compare_exchange(tail, new_node); return
EnqueueCasTail(p) ==
    /\ UNCHANGED <<nonqu, enq_before, queue_ns, deq_result>>
    /\ enq_pc[p] = "cas_tail"
    /\ tail_' = IF tail_ = enq_tail[p] THEN enq_node[p] ELSE tail_
    /\ enq_pc' = [enq_pc EXCEPT ![p] = "done"]
    /\ UNCHANGED <<head_, node_data, node_next, node_live, enq_node, enq_tail,
                   enq_next, deq_pc, deq_head, deq_tail, deq_next, deq_final,
                   popped, drained>>

\* enqueue, line 30: tail_.compare_exchange(tail, next)
EnqueueHelp(p) ==
    /\ UNCHANGED <<nonqu, enq_before, queue_ns, deq_result>>
    /\ enq_pc[p] = "help"
    /\ tail_' = IF tail_ = enq_tail[p] THEN enq_next[p] ELSE tail_
    /\ enq_pc' = [enq_pc EXCEPT ![p] = "load_tail"]
    /\ UNCHANGED <<head_, node_data, node_next, node_live, enq_node, enq_tail,
                   enq_next, deq_pc, deq_head, deq_tail, deq_next, deq_final,
                   popped, drained>>

\* every enqueue has returned
AllEnqueued == \A p \in Producers : enq_pc[p] = "done"

\* dequeue, line 41; the consumer calls dequeue again and again
DequeueLoadHead ==
    /\ UNCHANGED <<nonqu, enq_before, queue_ns, deq_result>>
    /\ deq_pc \in {"idle", "load_head"}
    /\ deq_pc = "idle" => Len(popped) <= Cardinality(Producers)
    /\ deq_final' = IF deq_pc = "idle" THEN AllEnqueued ELSE deq_final
    /\ deq_head' = head_
    /\ deq_pc' = "load_tail"
    /\ UNCHANGED <<head_, tail_, node_data, node_next, node_live, enq_pc,
                   enq_node, enq_tail, enq_next, deq_tail, deq_next, popped,
                   drained>>

\* dequeue, line 42
DequeueLoadTail ==
    /\ UNCHANGED <<nonqu, enq_before, queue_ns, deq_result>>
    /\ deq_pc = "load_tail"
    /\ deq_tail' = tail_
    /\ deq_pc' = "load_next"
    /\ UNCHANGED <<head_, tail_, node_data, node_next, node_live, enq_pc,
                   enq_node, enq_tail, enq_next, deq_head, deq_next, deq_final,
                   popped, drained>>

\* dequeue, line 43
DequeueLoadNext ==
    /\ UNCHANGED <<nonqu, enq_before, queue_ns, deq_result>>
    /\ deq_pc = "load_next"
    /\ deq_next' \in LoadNext(deq_head)
    /\ deq_pc' = "check"
    /\ UNCHANGED <<head_, tail_, node_data, node_next, node_live, enq_pc,
                   enq_node, enq_tail, enq_next, deq_head, deq_tail, deq_final,
                   popped, drained>>

\* dequeue, lines 45-54; on an empty queue it returns (line 48)
DequeueCheck ==
    /\ UNCHANGED <<nonqu, enq_before, queue_ns>>
    /\ deq_pc = "check"
    /\ deq_result' = IF deq_head = head_ /\ deq_head = deq_tail /\ deq_next = Null
                     THEN EmptyResult
                     ELSE deq_result
    /\ deq_pc' = IF deq_head # head_ THEN "load_head"
                 ELSE IF deq_head = deq_tail
                      THEN (IF deq_next = Null THEN "idle" ELSE "help")
                      ELSE (IF deq_next # Null THEN "cas_head" ELSE "load_head")
    /\ drained' = IF deq_head = head_ /\ deq_head = deq_tail /\ deq_next = Null
                  THEN drained \/ deq_final
                  ELSE drained
    /\ UNCHANGED <<head_, tail_, node_data, node_next, node_live, enq_pc,
                   enq_node, enq_tail, enq_next, deq_head, deq_tail, deq_next,
                   deq_final, popped>>

\* dequeue, line 50: tail_.compare_exchange(tail, next)
DequeueHelp ==
    /\ UNCHANGED <<nonqu, enq_before, queue_ns, deq_result>>
    /\ deq_pc = "help"
    /\ tail_' = IF tail_ = deq_tail THEN deq_next ELSE tail_
    /\ deq_pc' = "load_head"
    /\ UNCHANGED <<head_, node_data, node_next, node_live, enq_pc, enq_node,
                   enq_tail, enq_next, deq_head, deq_tail, deq_next, deq_final,
                   popped, drained>>

\* dequeue, lines 55-60: value = next->data; head_.compare_exchange(head, next);
\* delete head; return value
DequeueCasHead ==
    /\ UNCHANGED <<nonqu, enq_before, queue_ns>>
    /\ deq_pc = "cas_head"
    /\ deq_result' = IF head_ = deq_head THEN "value" ELSE deq_result
    /\ IF head_ = deq_head
       THEN /\ \E value \in LoadData(deq_next) : popped' = Append(popped, value)
            /\ head_' = deq_next
            /\ node_live' = [node_live EXCEPT ![deq_head] = FALSE]
            /\ deq_pc' = "idle"
       ELSE /\ deq_pc' = "load_head"
            /\ UNCHANGED <<head_, node_live, popped>>
    /\ UNCHANGED <<tail_, node_data, node_next, enq_pc, enq_node, enq_tail,
                   enq_next, deq_head, deq_tail, deq_next, deq_final, drained>>

QuNext ==
    \/ \E p \in Producers :
          \/ EnqueueNew(p)
          \/ EnqueueLoadTail(p)
          \/ EnqueueLoadNext(p)
          \/ EnqueueCheck(p)
          \/ EnqueueCasNext(p)
          \/ EnqueueCasTail(p)
          \/ EnqueueHelp(p)
    \/ DequeueLoadHead
    \/ DequeueLoadTail
    \/ DequeueLoadNext
    \/ DequeueCheck
    \/ DequeueHelp
    \/ DequeueCasHead

\* ------------------------------------------------------------------------
\* HierarchicalLock (sync/advanced_synchronization.cpp)
\* ------------------------------------------------------------------------
NumLockThreads == 2
NumLocks == 1
MaxLevel == 2

LockThreads == 1 .. NumLockThreads
Locks == DOMAIN lock_
Levels == 1 .. MaxLevel

NoCall == [lock |-> 0, hierarchy |-> 0]

\* n lock objects, all free; the holders are recorded where the properties
\* of a specification speak of them
HLOf(n, recorded) ==
    /\ lock_ = [l \in 1 .. n |-> 0]
    /\ hl_owner = [l \in (IF recorded THEN 1 .. n ELSE {}) |-> 0]
    /\ current_hierarchy = [t \in LockThreads |-> 0]
    /\ hl_pc = [t \in LockThreads |-> "idle"]
    /\ hl_call = [t \in LockThreads |-> NoCall]
    /\ hl_result = [t \in LockThreads |-> "none"]

HLIdle == HLOf(NumLocks, FALSE)

\* thread t (0: nobody) is noted as the holder of lock l
RecordOwner(l, t) ==
    IF l \in DOMAIN hl_owner THEN [hl_owner EXCEPT ![l] = t] ELSE hl_owner

\* a thread calls lock(hierarchy) on one lock object
HLockCall(t, l, hierarchy) ==
    /\ hl_pc[t] = "idle"
    /\ hl_pc' = [hl_pc EXCEPT ![t] = "check"]
    /\ hl_call' = [hl_call EXCEPT ![t] = [lock |-> l, hierarchy |-> hierarchy]]
    /\ hl_result' = [hl_result EXCEPT ![t] = "none"]
    /\ UNCHANGED <<lock_, current_hierarchy, hl_owner>>
    /\ UNCHANGED nonhl

\* if (hierarchy < current_hierarchy) throw: a call at the level held passes
HLockCheckStrict(t) ==
    /\ hl_pc[t] = "check"
    /\ IF hl_call[t].hierarchy < current_hierarchy[t]
       THEN /\ hl_pc' = [hl_pc EXCEPT ![t] = "idle"]
            /\ hl_result' = [hl_result EXCEPT ![t] = "InvalidHierarchy"]
            /\ hl_call' = [hl_call EXCEPT ![t] = NoCall]
       ELSE /\ hl_pc' = [hl_pc EXCEPT ![t] = "spin"]
            /\ UNCHANGED <<hl_result, hl_call>>
    /\ UNCHANGED <<lock_, current_hierarchy, hl_owner>>
    /\ UNCHANGED nonhl

\* if (hierarchy <= current_hierarchy) throw std::runtime_error(...)
HLockCheck(t) ==
    /\ hl_pc[t] = "check"
    /\ IF hl_call[t].hierarchy <= current_hierarchy[t]
       THEN /\ hl_pc' = [hl_pc EXCEPT ![t] = "idle"]
            /\ hl_result' = [hl_result EXCEPT ![t] = "InvalidHierarchy"]
            /\ hl_call' = [hl_call EXCEPT ![t] = NoCall]
       ELSE /\ hl_pc' = [hl_pc EXCEPT ![t] = "spin"]
            /\ UNCHANGED <<hl_result, hl_call>>
    /\ UNCHANGED <<lock_, current_hierarchy, hl_owner>>
    /\ UNCHANGED nonhl

\* one successful compare_exchange_weak(0 -> hierarchy), then
\* current_hierarchy = hierarchy; a failed exchange leaves the state as it is
HLockAcquire(t) ==
    /\ hl_pc[t] = "spin"
    /\ lock_[hl_call[t].lock] = 0
    /\ lock_' = [lock_ EXCEPT ![hl_call[t].lock] = hl_call[t].hierarchy]
    /\ current_hierarchy' =
           [current_hierarchy EXCEPT ![t] = hl_call[t].hierarchy]
    /\ hl_owner' = RecordOwner(hl_call[t].lock, t)
    /\ hl_pc' = [hl_pc EXCEPT ![t] = "idle"]
    /\ hl_result' = [hl_result EXCEPT ![t] = "locked"]
    /\ hl_call' = [hl_call EXCEPT ![t] = NoCall]
    /\ UNCHANGED nonhl

\* unlock(): throws when the thread's level is 0, else stores 0 in the lock
\* word and in the thread's level
HUnlock(t, l) ==
    /\ hl_pc[t] = "idle"
    /\ IF current_hierarchy[t] = 0
       THEN /\ hl_result' = [hl_result EXCEPT ![t] = "NotLocked"]
            /\ UNCHANGED <<lock_, current_hierarchy, hl_owner>>
       ELSE /\ lock_' = [lock_ EXCEPT ![l] = 0]
            /\ current_hierarchy' = [current_hierarchy EXCEPT ![t] = 0]
            /\ hl_owner' = RecordOwner(l, 0)
            /\ hl_result' = [hl_result EXCEPT ![t] = "unlocked"]
    /\ UNCHANGED <<hl_pc, hl_call>>
    /\ UNCHANGED nonhl

HLNext ==
    \E t \in LockThreads :
        \/ \E l \in Locks, hierarchy \in Levels : HLockCall(t, l, hierarchy)
        \/ HLockCheck(t)
        \/ HLockAcquire(t)
        \/ \E l \in Locks : HUnlock(t, l)

\* ------------------------------------------------------------------------
\* MultiCoreBlockchain worker (core/blockchain/MultiCoreBlockchain.cpp)
\* ------------------------------------------------------------------------
MaxTx == 3

\* what validate_transaction / process_transaction do with one transaction
TxOutcomes == {"processed", "invalid", "throws"}
\* what TransactionQueue::initialize() does to a queue that holds entries
QueueInitialize == {"kept", "emptied"}

TxIdle ==
    /\ tx_queue = [c \in Cores |-> <<>>]
    /\ tx_pc = [c \in Cores |-> "wait"]
    /\ tx_cur = [c \in Cores |-> 0]
    /\ tx_processed = {}
    /\ tx_failures = [c \in Cores |-> 0]
    /\ tx_next = 1

\* a transaction is queued on a core
TxSubmit(core_id) ==
    /\ tx_next <= MaxTx
    /\ tx_queue' = [tx_queue EXCEPT ![core_id] = Append(@, tx_next)]
    /\ tx_next' = tx_next + 1
    /\ UNCHANGED <<tx_pc, tx_cur, tx_processed, tx_failures>>
    /\ UNCHANGED nontx

\* worker_thread, lines 78-94: the wait ends on a non-empty queue and the
\* worker calls process_core_transactions
TxWorkerWoken(core_id) ==
    /\ tx_pc[core_id] = "wait"
    /\ tx_queue[core_id] # <<>>
    /\ tx_pc' = [tx_pc EXCEPT ![core_id] = "loop"]
    /\ UNCHANGED <<tx_queue, tx_cur, tx_processed, tx_failures, tx_next>>
    /\ UNCHANGED nontx

\* process_core_transactions, lines 111-112: loop test and pop
TxPop(core_id) ==
    /\ tx_pc[core_id] = "loop"
    /\ IF tx_queue[core_id] = <<>>
       THEN /\ tx_pc' = [tx_pc EXCEPT ![core_id] = "wait"]
            /\ UNCHANGED <<tx_queue, tx_cur>>
       ELSE /\ tx_cur' = [tx_cur EXCEPT ![core_id] = Head(tx_queue[core_id])]
            /\ tx_queue' = [tx_queue EXCEPT ![core_id] = Tail(@)]
            /\ tx_pc' = [tx_pc EXCEPT ![core_id] = "try"]
    /\ UNCHANGED <<tx_processed, tx_failures, tx_next>>
    /\ UNCHANGED nontx

\* MultiCoreBlockchain::handle_core_failure, lines 249-271, called by the
\* worker of a running system: initialize_core() re-initialises the core's
\* queue; redistribute_work() finds no stopped core to collect from
tx_handle_core_failure(core_id, init) ==
    [tx_queue EXCEPT ![core_id] = IF init = "emptied" THEN <<>> ELSE @]

\* process_core_transactions, lines 114-129
TxTry(core_id, outcome, init) ==
    /\ tx_pc[core_id] = "try"
    /\ tx_cur' = [tx_cur EXCEPT ![core_id] = 0]
    /\ CASE outcome = "invalid" ->
              /\ tx_pc' = [tx_pc EXCEPT ![core_id] = "loop"]
              /\ UNCHANGED <<tx_queue, tx_processed, tx_failures>>
         [] outcome = "processed" ->
              /\ tx_processed' = tx_processed \cup {tx_cur[core_id]}
              /\ tx_pc' = [tx_pc EXCEPT ![core_id] = "loop"]
              /\ UNCHANGED <<tx_queue, tx_failures>>
         [] outcome = "throws" ->
              /\ tx_failures' = [tx_failures EXCEPT ![core_id] = @ + 1]
              /\ tx_queue' = tx_handle_core_failure(core_id, init)
              /\ tx_pc' = [tx_pc EXCEPT ![core_id] = "wait"]
              /\ UNCHANGED tx_processed
    /\ UNCHANGED tx_next
    /\ UNCHANGED nontx

TxNext ==
    \E core_id \in Cores :
        \/ TxSubmit(core_id)
        \/ TxWorkerWoken(core_id)
        \/ TxPop(core_id)
        \/ \E outcome \in TxOutcomes, init \in QueueInitialize :
              TxTry(core_id, outcome, init)

(***************************************************************************)
(* LockFreeStack                                                           *)
(***************************************************************************)
NumPushers == 2
NumPoppers == 2
\* the threads that call push, each once with its own value
Pushers == 1 .. NumPushers
\* the threads that call pop again and again
Poppers == 1 .. NumPoppers
\* the heap of the stack's nodes
StackAddrs == 1 .. NumPushers
StackPointers == StackAddrs \cup {Null}

\* the stack after construction: head_ is nullptr
StIdle ==
    /\ stack_head_ = Null
    /\ stack_data = [a \in StackAddrs |-> 0]
    /\ stack_next = [a \in StackAddrs |-> Null]
    /\ stack_live = [a \in StackAddrs |-> FALSE]
    /\ push_pc = [p \in Pushers |-> "idle"]
    /\ push_node = [p \in Pushers |-> Null]
    /\ pop_pc = [q \in Poppers |-> "idle"]
    /\ pop_old = [q \in Poppers |-> Null]
    /\ pop_next = [q \in Poppers |-> Null]
    /\ pop_final = [q \in Poppers |-> FALSE]
    /\ stack_popped = <<>>
    /\ stack_drained = FALSE

\* what a load of node->next can give: the stored pointer, or, when the node
\* has been deleted, whatever the freed memory holds
StackLoadNext(a) == IF stack_live[a] THEN {stack_next[a]} ELSE StackPointers

\* what a load of node->data can give
StackLoadData(a) == IF stack_live[a] THEN {stack_data[a]} ELSE Pushers

\* push, line 71: new Node{value, head_.load()}; the allocator hands out any
\* address that is not in use
PushNew(p) ==
    /\ UNCHANGED nonst
    /\ push_pc[p] = "idle"
    /\ \E a \in StackAddrs :
          /\ ~stack_live[a]
          /\ stack_live' = [stack_live EXCEPT ![a] = TRUE]
          /\ stack_data' = [stack_data EXCEPT ![a] = p]
          /\ stack_next' = [stack_next EXCEPT ![a] = stack_head_]
          /\ push_node' = [push_node EXCEPT ![p] = a]
    /\ push_pc' = [push_pc EXCEPT ![p] = "cas"]
    /\ UNCHANGED <<stack_head_, pop_pc, pop_old, pop_next, pop_final,
                   stack_popped, stack_drained>>

\* push, lines 73-77: head_.compare_exchange_weak(new_node->next, new_node);
\* a failed exchange stores the current head_ in new_node->next
PushCas(p) ==
    /\ UNCHANGED nonst
    /\ push_pc[p] = "cas"
    /\ \E expected \in StackLoadNext(push_node[p]) :
          IF stack_head_ = expected
          THEN /\ stack_head_' = push_node[p]
               /\ push_pc' = [push_pc EXCEPT ![p] = "done"]
               /\ UNCHANGED stack_next
          ELSE /\ stack_next' = [stack_next EXCEPT ![push_node[p]] = stack_head_]
               /\ UNCHANGED <<stack_head_, push_pc>>
    /\ UNCHANGED <<stack_data, stack_live, push_node, pop_pc, pop_old,
                   pop_next, pop_final, stack_popped, stack_drained>>

\* every push has returned
AllPushed == \A p \in Pushers : push_pc[p] = "done"

\* pop, line 82: old_head = head_.load()
PopLoadHead(q) ==
    /\ UNCHANGED nonst
    /\ pop_pc[q] = "idle"
    /\ Len(stack_popped) <= NumPushers
    /\ pop_old' = [pop_old EXCEPT ![q] = stack_head_]
    /\ pop_final' = [pop_final EXCEPT ![q] = AllPushed]
    /\ pop_pc' = [pop_pc EXCEPT ![q] = "test"]
    /\ UNCHANGED <<stack_head_, stack_data, stack_next, stack_live, push_pc,
                   push_node, pop_next, stack_popped, stack_drained>>

\* pop, lines 84-85 and 94: the loop test, return false on nullptr, else the
\* load of old_head->next for the exchange
PopTest(q) ==
    /\ UNCHANGED nonst
    /\ pop_pc[q] = "test"
    /\ IF pop_old[q] = Null
       THEN /\ pop_pc' = [pop_pc EXCEPT ![q] = "idle"]
            /\ stack_drained' = (stack_drained \/ pop_final[q])
            /\ UNCHANGED pop_next
       ELSE /\ \E next \in StackLoadNext(pop_old[q]) :
                  pop_next' = [pop_next EXCEPT ![q] = next]
            /\ pop_pc' = [pop_pc EXCEPT ![q] = "cas"]
            /\ UNCHANGED stack_drained
    /\ UNCHANGED <<stack_head_, stack_data, stack_next, stack_live, push_pc,
                   push_node, pop_old, pop_final, stack_popped>>

\* pop, line 85: head_.compare_exchange_weak(old_head, old_head->next)
PopCas(q) ==
    /\ UNCHANGED nonst
    /\ pop_pc[q] = "cas"
    /\ IF stack_head_ = pop_old[q]
       THEN /\ stack_head_' = pop_next[q]
            /\ pop_pc' = [pop_pc EXCEPT ![q] = "take"]
            /\ UNCHANGED pop_old
       ELSE /\ pop_old' = [pop_old EXCEPT ![q] = stack_head_]
            /\ pop_pc' = [pop_pc EXCEPT ![q] = "test"]
            /\ UNCHANGED stack_head_
    /\ UNCHANGED <<stack_data, stack_next, stack_live, push_pc, push_node,
                   pop_next, pop_final, stack_popped, stack_drained>>

\* pop, lines 88-90: value = old_head->data; delete old_head; return true
PopTake(q) ==
    /\ UNCHANGED nonst
    /\ pop_pc[q] = "take"
    /\ \E value \in StackLoadData(pop_old[q]) :
          stack_popped' = Append(stack_popped, value)
    /\ stack_live' = [stack_live EXCEPT ![pop_old[q]] = FALSE]
    /\ pop_pc' = [pop_pc EXCEPT ![q] = "idle"]
    /\ UNCHANGED <<stack_head_, stack_data, stack_next, push_pc, push_node,
                   pop_old, pop_next, pop_final, stack_drained>>

StNext ==
    \/ \E p \in Pushers : PushNew(p) \/ PushCas(p)
    \/ \E q \in Poppers :
          \/ PopLoadHead(q)
          \/ PopTest(q)
          \/ PopCas(q)
          \/ PopTake(q)

(***************************************************************************)
(* RCUGuard                                                                *)
(***************************************************************************)
NumRcuThreads == 3
MaxGuards == 2
RcuThreads == 1 .. NumRcuThreads

\* thread_local uint64_t RCUGuard::version_ = 0: one counter per thread
RcuIdle ==
    /\ version_ = [t \in RcuThreads |-> 0]
    /\ rcu_pc = [t \in RcuThreads |-> "idle"]
    /\ rcu_cur = [t \in RcuThreads |-> 0]
    /\ rcu_guards = [t \in RcuThreads |-> 0]

\* RCUGuard::RCUGuard, line 50: version_ = version_.load()
RcuConstruct(t) ==
    /\ UNCHANGED nonrcu
    /\ rcu_pc[t] = "idle"
    /\ rcu_guards[t] < MaxGuards
    /\ version_' = [version_ EXCEPT ![t] = version_[t]]
    /\ rcu_guards' = [rcu_guards EXCEPT ![t] = rcu_guards[t] + 1]
    /\ UNCHANGED <<rcu_pc, rcu_cur>>

\* RCUGuard::~RCUGuard, lines 53-55
RcuDestroy(t) ==
    /\ UNCHANGED nonrcu
    /\ rcu_pc[t] = "idle"
    /\ rcu_guards[t] > 0
    /\ rcu_guards' = [rcu_guards EXCEPT ![t] = rcu_guards[t] - 1]
    /\ UNCHANGED <<version_, rcu_pc, rcu_cur>>

\* synchronize, line 59: current_version = version_.load()
SynchronizeLoad(t) ==
    /\ UNCHANGED nonrcu
    /\ rcu_pc[t] = "idle"
    /\ rcu_cur' = [rcu_cur EXCEPT ![t] = version_[t]]
    /\ rcu_pc' = [rcu_pc EXCEPT ![t] = "fence"]
    /\ UNCHANGED <<version_, rcu_guards>>

\* synchronize, lines 62-68: the memory barrier
SynchronizeFence(t) ==
    /\ UNCHANGED nonrcu
    /\ rcu_pc[t] = "fence"
    /\ rcu_pc' = [rcu_pc EXCEPT ![t] = "spin"]
    /\ UNCHANGED <<version_, rcu_cur, rcu_guards>>

\* a thread that ignores the counter and leaves the loop
SpinOverAlways(t) == TRUE

\* synchronize, line 71: the loop ends when version_ differs from the value read
SpinOver(t) == version_[t] # rcu_cur[t]

\* synchronize, lines 71-73: one test of the loop; yield and test again, or
\* return
SynchronizeSpin(t) ==
    /\ UNCHANGED nonrcu
    /\ rcu_pc[t] = "spin"
    /\ rcu_pc' = [rcu_pc EXCEPT ![t] = IF SpinOver(t) THEN "idle" ELSE "spin"]
    /\ UNCHANGED <<version_, rcu_cur, rcu_guards>>

RcuNext ==
    \E t \in RcuThreads :
        \/ RcuConstruct(t)
        \/ RcuDestroy(t)
        \/ SynchronizeLoad(t)
        \/ SynchronizeFence(t)
        \/ SynchronizeSpin(t)

(***************************************************************************)
(* LoadBalancer: start, stop, pause, resume and the monitoring thread      *)
(***************************************************************************)
\* the threads start() can create in one run of the model
MonThreads == {"monitor1", "monitor2"}

\* LoadBalancer::LoadBalancer, lines 10-17; set_compute_engine may have been
\* called or not
MonConstructed(engine) ==
    /\ running_ = FALSE
    /\ paused_ = FALSE
    /\ compute_engine_ = engine
    /\ mon_pc = [m \in MonThreads |-> "none"]
    /\ mon_i = [m \in MonThreads |-> 0]
    /\ lb_stopped = FALSE

MonIdle == MonConstructed(FALSE)

\* the monitoring threads that have been started and have not left monitor_cores
LiveMonitors == {m \in MonThreads : mon_pc[m] \notin {"none", "exited"}}

\* start(), lines 23-31
LbStart ==
    /\ UNCHANGED <<nonmon, lbvars>>
    /\ ~crashed
    /\ IF running_
       THEN UNCHANGED <<running_, mon_pc, lb_stopped>>
       ELSE /\ running_' = TRUE
            /\ lb_stopped' = FALSE
            /\ \E m \in MonThreads :
                  /\ mon_pc[m] = "none"
                  /\ mon_pc' = [mon_pc EXCEPT ![m] = "top"]
    /\ UNCHANGED <<paused_, compute_engine_, mon_i>>

\* stop(), lines 33-41: the predicate of the wait, !running_, is true as soon
\* as the exchange of line 34 has been made
LbStop ==
    /\ UNCHANGED <<nonmon, lbvars>>
    /\ ~crashed
    /\ running_
    /\ running_' = FALSE
    /\ lb_stopped' = TRUE
    /\ UNCHANGED <<paused_, compute_engine_, mon_pc, mon_i>>

\* pause(), lines 43-46
LbPause ==
    /\ UNCHANGED <<nonmon, lbvars>>
    /\ ~crashed
    /\ ~paused_
    /\ paused_' = TRUE
    /\ UNCHANGED <<running_, compute_engine_, mon_pc, mon_i, lb_stopped>>

\* resume(), lines 48-52: notify_all wakes the threads blocked on state_cv_
LbResume ==
    /\ UNCHANGED <<nonmon, lbvars>>
    /\ ~crashed
    /\ paused_
    /\ paused_' = FALSE
    /\ mon_pc' = [m \in MonThreads |->
                     IF mon_pc[m] = "blocked" THEN "wait" ELSE mon_pc[m]]
    /\ UNCHANGED <<running_, compute_engine_, mon_i, lb_stopped>>

\* monitor_cores, line 253: while (running_)
MonTop(m) ==
    /\ UNCHANGED <<nonmon, lbvars>>
    /\ ~crashed
    /\ mon_pc[m] = "top"
    /\ mon_pc' = [mon_pc EXCEPT ![m] = IF running_ THEN "wait" ELSE "exited"]
    /\ UNCHANGED <<running_, paused_, compute_engine_, mon_i, lb_stopped>>

\* monitor_cores, lines 255-260: the wait on state_cv_ and the break
MonWait(m) ==
    /\ UNCHANGED <<nonmon, lbvars>>
    /\ ~crashed
    /\ mon_pc[m] = "wait"
    /\ mon_pc' = [mon_pc EXCEPT
                    ![m] = IF paused_ /\ running_ THEN "blocked"
                           ELSE IF ~running_ THEN "exited"
                           ELSE "collect"]
    /\ UNCHANGED <<running_, paused_, compute_engine_, mon_i, lb_stopped>>

\* the LoadBalancer variables no step of the monitoring thread writes
lbrest == <<tasks_, task_status_, net_tasks, net_status, task_mutex_, pc,
            pending, result, relock, returned>>

RECURSIVE CollectOrders(_, _)
\* the iteration orders of core_metrics_ once the keys i .. NumCores-1 are in
CollectOrders(order, i) ==
    IF i >= NumCores THEN {order}
    ELSE UNION {CollectOrders(o, i + 1) : o \in StoreOrders(order, i)}

RECURSIVE CollectInto(_, _, _)
\* monitor_cores, lines 266-277: update_core_metrics(i, {metrics[i], now, true})
\* for the cores 0 .. n-1 the engine reports
CollectInto(metrics, reported, i) ==
    IF i > Len(reported) THEN metrics
    ELSE CollectInto(StoreMetrics(metrics, i - 1, Entry(reported[i], TRUE)),
                     reported, i + 1)

\* monitor_cores, lines 264-279
MonCollect(m) ==
    /\ UNCHANGED <<nonmon, lbrest>>
    /\ ~crashed
    /\ mon_pc[m] = "collect"
    /\ IF compute_engine_
       THEN /\ metrics_mutex_ = NoThread
            /\ \E reported \in [1 .. NumCores -> MetricInputs] :
                  core_metrics_' = CollectInto(core_metrics_, reported, 1)
            /\ core_order' \in CollectOrders(core_order, 0)
       ELSE UNCHANGED <<core_metrics_, core_order>>
    /\ mon_pc' = [mon_pc EXCEPT ![m] = "lock"]
    /\ UNCHANGED <<metrics_mutex_, crashed, running_, paused_, compute_engine_,
                   mon_i, lb_stopped>>

\* monitor_cores, line 282: lock_guard on metrics_mutex_, held to the end of
\* the loop body
MonLock(m) ==
    /\ UNCHANGED <<nonmon, lbrest>>
    /\ ~crashed
    /\ mon_pc[m] = "lock"
    /\ metrics_mutex_ = NoThread
    /\ metrics_mutex_' = m
    /\ mon_pc' = [mon_pc EXCEPT ![m] = "health"]
    /\ mon_i' = [mon_i EXCEPT ![m] = 1]
    /\ UNCHANGED <<core_metrics_, core_order, crashed, running_, paused_,
                   compute_engine_, lb_stopped>>

\* a lock_guard on metrics_mutex_ taken and released by thread m inside a
\* call (lines 183-189, 225): when m owns the mutex the build decides; a
\* std::system_error leaves the thread function and ends the process
MonInnerLock(m, then_pc) ==
    /\ metrics_mutex_ \in {NoThread, m}
    /\ IF metrics_mutex_ = NoThread
       THEN /\ mon_pc' = [mon_pc EXCEPT ![m] = then_pc]
            /\ UNCHANGED <<metrics_mutex_, crashed>>
       ELSE \/ /\ relock = "deadlock"
               /\ mon_pc' = [mon_pc EXCEPT ![m] = "deadlocked"]
               /\ UNCHANGED <<metrics_mutex_, crashed>>
            \/ /\ relock = "throw"
               /\ crashed' = TRUE
               /\ UNCHANGED <<metrics_mutex_, mon_pc>>
            \/ /\ relock = "proceed"
               /\ metrics_mutex_' = NoThread
               /\ mon_pc' = [mon_pc EXCEPT ![m] = then_pc]
               /\ UNCHANGED crashed

\* monitor_cores, lines 283-289: one entry of core_metrics_
MonHealth(m) ==
    /\ UNCHANGED <<nonmon, lbrest>>
    /\ ~crashed
    /\ mon_pc[m] = "health"
    /\ IF mon_i[m] > Len(core_order)
       THEN /\ mon_pc' = [mon_pc EXCEPT ![m] = "optimize"]
            /\ UNCHANGED <<metrics_mutex_, crashed, mon_i>>
       ELSE IF ~core_metrics_[core_order[mon_i[m]]].is_healthy
            THEN \* handle_core_failure -> mark_core_unhealthy (line 171)
                 \* -> handle_core_failure -> ...: no outcome returns
                 /\ metrics_mutex_ \in {NoThread, m}
                 /\ IF relock = "deadlock" /\ metrics_mutex_ = m
                    THEN /\ mon_pc' = [mon_pc EXCEPT ![m] = "deadlocked"]
                         /\ UNCHANGED <<metrics_mutex_, crashed, mon_i>>
                    ELSE /\ IF relock = "deadlock"
                            THEN /\ metrics_mutex_' = m
                                 /\ mon_pc' = [mon_pc EXCEPT ![m] = "deadlocked"]
                                 /\ UNCHANGED crashed
                            ELSE /\ crashed' = TRUE
                                 /\ UNCHANGED <<metrics_mutex_, mon_pc>>
                         /\ UNCHANGED mon_i
            ELSE \* adjust_resources(core_id), lines 183-189
                 /\ MonInnerLock(m, "health")
                 /\ mon_i' = [mon_i EXCEPT ![m] = IF mon_pc'[m] = "health"
                                                  THEN mon_i[m] + 1 ELSE mon_i[m]]
    /\ UNCHANGED <<core_metrics_, core_order, running_, paused_,
                   compute_engine_, lb_stopped>>

\* monitor_cores, line 292: optimize_distribution(), lines 224-250
MonOptimize(m) ==
    /\ UNCHANGED <<nonmon, lbrest>>
    /\ ~crashed
    /\ mon_pc[m] = "optimize"
    /\ MonInnerLock(m, "sleep")
    /\ UNCHANGED <<core_metrics_, core_order, running_, paused_,
                   compute_engine_, mon_i, lb_stopped>>

\* monitor_cores, lines 294-295: the sleep; the tick is complete and the
\* lock_guard of line 282 goes out of scope
MonSleep(m) ==
    /\ UNCHANGED <<nonmon, lbrest>>
    /\ ~crashed
    /\ mon_pc[m] = "sleep"
    /\ metrics_mutex_' = IF metrics_mutex_ = m THEN NoThread ELSE metrics_mutex_
    /\ mon_pc' = [mon_pc EXCEPT ![m] = "top"]
    /\ UNCHANGED <<core_metrics_, core_order, crashed, running_, paused_,
                   compute_engine_, mon_i, lb_stopped>>

MonitorStep(m) ==
    \/ MonTop(m)
    \/ MonWait(m)
    \/ MonCollect(m)
    \/ MonLock(m)
    \/ MonHealth(m)
    \/ MonOptimize(m)
    \/ MonSleep(m)

\* the callers of the LoadBalancer next to its monitoring thread
MonNext ==
    \/ LbStart
    \/ LbStop
    \/ LbPause
    \/ LbResume
    \/ \E m \in MonThreads : MonitorStep(m)
    \/ \E t \in Threads :
          \/ \E core_id \in Cores, healthy \in BOOLEAN :
                UpdateCoreMetrics(t, core_id, [cpu |-> 0, mem |-> 0, net |-> 0], healthy)
          \/ \E core_id \in Cores : MarkCoreUnhealthy(t, core_id)
          \/ MarkRelock(t)

(***************************************************************************)
(* NetworkManager and ParentCore::handle_core_failure                      *)
(***************************************************************************)
MaxObjects == 6
MaxConnections == 3
\* no connection id: the call threw
NoId == 0

\* NetworkManager::NetworkManager, lines 17-21: no cores, no connections
NmIdle ==
    /\ cores_ = <<>>
    /\ net_objects = 0
    /\ connections_ = <<>>
    /\ conn_opened = 0
    /\ conn_id = NoId
    /\ conn_state = "idle"
    /\ parent_result = [core |-> NoCore, status |-> "none"]

\* the NetworkCore made by the n-th std::make_unique<NetworkCore>()
NewNetworkCore(n) == [object |-> n, running |-> FALSE]

\* NetworkManager::initialize_core, lines 65-70, on the vector cs, as the
\* n-th construction of a NetworkCore
initialize_core(cs, core_id, n) ==
    [c \in DOMAIN cs \cup {core_id} |->
        IF c = core_id THEN NewNetworkCore(n) ELSE cs[c]]

RECURSIVE initialize_cores(_, _, _)
\* ParentCore::initialize_cores, lines 139-141: initialize_core(i) for every
\* network core i .. NumCores - 1
initialize_cores(cs, i, n) ==
    IF i >= NumCores THEN cs
    ELSE initialize_cores(initialize_core(cs, i, n + 1), i + 1, n + 1)

\* NetworkManager::start_core / stop_core on the vector cs, lines 72-82
SetRunning(cs, core_id, value) ==
    IF core_id \in DOMAIN cs
    THEN [cs EXCEPT ![core_id].running = value]
    ELSE cs

\* ParentCore::initialize: the cores are created
ParentInitialize ==
    /\ UNCHANGED nonnm
    /\ cores_ = <<>>
    /\ cores_' = initialize_cores(cores_, 0, net_objects)
    /\ net_objects' = net_objects + NumCores
    /\ UNCHANGED <<connections_, conn_opened, conn_id, conn_state, parent_result>>

\* NetworkManager::start_core, lines 72-76
NetStartCore(core_id) ==
    /\ UNCHANGED nonnm
    /\ cores_' = SetRunning(cores_, core_id, TRUE)
    /\ UNCHANGED <<net_objects, connections_, conn_opened, conn_id, conn_state,
                   parent_result>>

\* NetworkManager::stop_core, lines 78-82
NetStopCore(core_id) ==
    /\ UNCHANGED nonnm
    /\ cores_' = SetRunning(cores_, core_id, FALSE)
    /\ UNCHANGED <<net_objects, connections_, conn_opened, conn_id, conn_state,
                   parent_result>>

\* ParentCore::handle_core_failure, lines 191-222: stop_core(core_id),
\* initialize_cores(), start_core(core_id); when a step of the recovery throws
\* before the cores are initialised again, the tasks are redistributed
ParentHandleCoreFailure(core_id, recovers) ==
    /\ UNCHANGED nonnm
    /\ cores_ # <<>>
    /\ net_objects + NumCores <= MaxObjects
    /\ IF recovers
       THEN /\ cores_' = SetRunning(
                            initialize_cores(SetRunning(cores_, core_id, FALSE),
                                             0, net_objects),
                            core_id, TRUE)
            /\ net_objects' = net_objects + NumCores
            /\ parent_result' = [core |-> core_id, status |-> "recovered"]
       ELSE /\ cores_' = SetRunning(cores_, core_id, FALSE)
            /\ UNCHANGED net_objects
            /\ parent_result' = [core |-> core_id, status |-> "redistributed"]
    /\ UNCHANGED <<connections_, conn_opened, conn_id, conn_state>>

\* NetworkManager::connect, lines 96-126: the socket calls fail and the call
\* throws, or the Connection is stored under connections_.size() + 1
Connect(succeeds) ==
    /\ UNCHANGED nonnm
    /\ conn_state = "idle"
    /\ conn_opened < MaxConnections
    /\ IF succeeds
       THEN /\ conn_id' = Cardinality(DOMAIN connections_) + 1
            /\ conn_opened' = conn_opened + 1
            /\ connections_' =
                   [id \in DOMAIN connections_ \cup {conn_id'} |->
                       IF id = conn_id' THEN conn_opened' ELSE connections_[id]]
       ELSE /\ conn_id' = NoId
            /\ UNCHANGED <<conn_opened, connections_>>
    /\ UNCHANGED <<cores_, net_objects, conn_state, parent_result>>

\* NetworkManager::disconnect, lines 128-135: with the connection found,
\* cleanup_connection locks connection_mutex_ again (line 326) while
\* disconnect holds it
Disconnect(connection_id) ==
    /\ UNCHANGED nonnm
    /\ conn_state = "idle"
    /\ IF connection_id \notin DOMAIN connections_
       THEN UNCHANGED <<connections_, conn_state>>
       ELSE \/ /\ relock = "deadlock"
               /\ conn_state' = "deadlocked"
               /\ UNCHANGED connections_
            \/ /\ relock = "throw"
               /\ UNCHANGED <<connections_, conn_state>>
            \/ /\ relock = "proceed"
               /\ connections_' =
                      [id \in DOMAIN connections_ \ {connection_id} |-> connections_[id]]
               /\ UNCHANGED conn_state
    /\ conn_id' = NoId
    /\ UNCHANGED <<cores_, net_objects, conn_opened, parent_result>>

NmNext ==
    \/ ParentInitialize
    \/ \E core_id \in Cores : NetStartCore(core_id)
    \/ \E core_id \in Cores : NetStopCore(core_id)
    \/ \E core_id \in Cores, recovers \in BOOLEAN :
          ParentHandleCoreFailure(core_id, recovers)
    \/ \E succeeds \in BOOLEAN : Connect(succeeds)
    \/ \E connection_id \in 1 .. MaxConnections : Disconnect(connection_id)

(***************************************************************************)
(* Specifications                                                          *)
(***************************************************************************)
LBIdle == LBInit /\ relock = "deadlock"

Init == LBInit /\ SelIdle /\ EngIdle /\ QuInit /\ HLIdle /\ TxIdle /\ StIdle /\ RcuIdle /\ MonIdle /\ NmIdle
Next == LBNext
Spec == Init /\ [][Next]_vars

SelectInit == LBIdle /\ SelInit /\ EngIdle /\ QuInit /\ HLIdle /\ TxIdle /\ StIdle /\ RcuIdle /\ MonIdle /\ NmIdle
\* submission and cancellation of tasks
CancelInit == LBInit /\ SelIdle /\ EngIdle /\ QuInit /\ HLIdle /\ TxIdle /\ StIdle /\ RcuIdle /\ MonIdle /\ NmIdle
CancelNext ==
    \E t \in Threads :
        \/ \E core_id \in Cores, m \in MetricInputs, healthy \in BOOLEAN :
              UpdateCoreMetrics(t, core_id, m, healthy)
        \/ SubmitLock(t)
        \/ \E assigned \in AssignedInputs, type \in TaskTypes :
              SubmitBody(t, [type |-> type, assigned_core |-> assigned])
        \/ \E task_id \in TaskIdInputs : CancelTask(t, task_id)
SpecCancel == CancelInit /\ [][CancelNext]_vars

\* the whole LoadBalancer API, cancellation included
StatusInit == LBInit /\ SelIdle /\ EngIdle /\ QuInit /\ HLIdle /\ TxIdle /\ StIdle /\ RcuIdle /\ MonIdle /\ NmIdle
StatusNext ==
    \/ LBNext
    \/ \E t \in Threads, task_id \in TaskIdInputs : CancelTask(t, task_id)
SpecStatus == StatusInit /\ [][StatusNext]_vars

LiveInit == LBInit /\ SelIdle /\ EngIdle /\ QuInit /\ HLIdle /\ TxIdle /\ StIdle /\ RcuIdle /\ MonIdle /\ NmIdle
SpecLive == LiveInit /\ [][LBNext]_vars /\ WF_vars(LBNext)

SpecSelect == SelectInit /\ [][SelNext]_vars

EngineInit == LBIdle /\ SelIdle /\ EngIdle /\ QuInit /\ HLIdle /\ TxIdle /\ StIdle /\ RcuIdle /\ MonIdle /\ NmIdle
SpecEngine == EngineInit /\ [][EngNext]_vars

QueueInit ==
    /\ LBIdle /\ SelIdle /\ EngIdle /\ HLIdle /\ TxIdle /\ StIdle /\ RcuIdle /\ MonIdle /\ NmIdle
    /\ QueueOf(NumProducers)
    /\ queue_ns \in QueueClasses
SpecQueue == QueueInit /\ [][QuNext]_vars

\* the queue with one more producer, so that one enqueue can begin after
\* another has returned while a third one is in flight
FifoProducers == 3
FifoInit ==
    /\ LBIdle /\ SelIdle /\ EngIdle /\ HLIdle /\ TxIdle /\ StIdle /\ RcuIdle /\ MonIdle /\ NmIdle
    /\ QueueOf(FifoProducers)
    /\ queue_ns \in QueueClasses
\* a client that starts the last enqueue after the other enqueues returned
FifoNext ==
    \/ \E p \in Producers \ {FifoProducers} : EnqueueNew(p)
    \/ /\ \A q \in Producers \ {FifoProducers} : enq_pc[q] = "done"
       /\ EnqueueNew(FifoProducers)
    \/ \E p \in Producers :
          \/ EnqueueLoadTail(p)
          \/ EnqueueLoadNext(p)
          \/ EnqueueCheck(p)
          \/ EnqueueCasNext(p)
          \/ EnqueueCasTail(p)
          \/ EnqueueHelp(p)
    \/ DequeueLoadHead
    \/ DequeueLoadTail
    \/ DequeueLoadNext
    \/ DequeueCheck
    \/ DequeueHelp
    \/ DequeueCasHead
SpecFifo == FifoInit /\ [][FifoNext]_vars

\* the steps of the enqueue of producer p
ProducerStep(p) ==
    \/ EnqueueNew(p)
    \/ EnqueueLoadTail(p)
    \/ EnqueueLoadNext(p)
    \/ EnqueueCheck(p)
    \/ EnqueueCasNext(p)
    \/ EnqueueCasTail(p)
    \/ EnqueueHelp(p)

\* the steps of the consumer's dequeue calls
ConsumerStep ==
    \/ DequeueLoadHead
    \/ DequeueLoadTail
    \/ DequeueLoadNext
    \/ DequeueCheck
    \/ DequeueHelp
    \/ DequeueCasHead

\* the thread that may be suspended for ever at any point of its enqueue
Suspended == 1

\* the queue with a scheduler that keeps running every thread but Suspended
ProgressInit ==
    /\ LBIdle /\ SelIdle /\ EngIdle /\ HLIdle /\ TxIdle /\ StIdle /\ RcuIdle /\ MonIdle /\ NmIdle
    /\ QueueOf(NumProducers)
    /\ queue_ns \in QueueClasses
ProgressNext == (\E p \in Producers : ProducerStep(p)) \/ ConsumerStep
SpecProgress ==
    /\ ProgressInit
    /\ [][ProgressNext]_vars
    /\ \A p \in (1 .. NumProducers) \ {Suspended} : WF_vars(ProducerStep(p))
    /\ WF_vars(ConsumerStep)

\* the stack alone
StackInit == LBIdle /\ SelIdle /\ EngIdle /\ QuInit /\ HLIdle /\ TxIdle /\ StIdle /\ RcuIdle /\ MonIdle /\ NmIdle
SpecStack == StackInit /\ [][StNext]_vars

\* threads that construct and destroy guards and call synchronize
RcuInit ==
    LBIdle /\ SelIdle /\ EngIdle /\ QuInit /\ HLIdle /\ TxIdle /\ StIdle /\ RcuIdle /\ MonIdle /\ NmIdle
SpecRcu == RcuInit /\ [][RcuNext]_vars

\* the same threads, each of them scheduled again and again
RcuLiveInit ==
    /\ RcuIdle
    /\ LBIdle /\ SelIdle /\ EngIdle /\ QuInit /\ HLIdle /\ TxIdle /\ StIdle /\ MonIdle /\ NmIdle
SpecRcuLive ==
    /\ RcuLiveInit
    /\ [][RcuNext]_vars
    /\ \A t \in RcuThreads :
          /\ WF_vars(RcuConstruct(t) \/ RcuDestroy(t))
          /\ WF_vars(SynchronizeLoad(t) \/ SynchronizeFence(t) \/ SynchronizeSpin(t))

\* the engine with healthy cores: tasks, pause and resume, no failure handling
PauseTasks == 2
PauseInit == LBIdle /\ SelIdle /\ EngIdle /\ QuInit /\ HLIdle /\ TxIdle /\ StIdle /\ RcuIdle /\ MonIdle /\ NmIdle
PauseNext ==
    \/ EngineStart
    \/ EnginePause
    \/ EngineResume
    \/ \E core_id \in Cores :
          \/ EngineSubmitBounded(core_id, PauseTasks)
          \/ WorkerLoop(core_id)
          \/ WorkerWait(core_id)
          \/ WorkerBlock(core_id)
          \/ WorkerWoken(core_id)
          \/ WorkerEmpty(core_id)
          \/ WorkerPop(core_id)
          \/ \E outcome \in ExecOutcomes : WorkerExecute(core_id, outcome)
          \/ WorkerOptimize(core_id, TRUE)
SpecPause == PauseInit /\ [][PauseNext]_vars

\* the steps of the worker thread of one core
WorkerStep(core_id) ==
    \/ WorkerLoop(core_id)
    \/ WorkerWait(core_id)
    \/ WorkerBlock(core_id)
    \/ WorkerWoken(core_id)
    \/ WorkerEmpty(core_id)
    \/ WorkerPop(core_id)
    \/ \E outcome \in ExecOutcomes : WorkerExecute(core_id, outcome)
    \/ WorkerOptimize(core_id, TRUE)

\* the engine with healthy cores, started and stopped, under a scheduler
\* that keeps running every worker and the thread that called stop()
StopInit ==
    LBIdle /\ SelIdle /\ EngIdle /\ QuInit /\ HLIdle /\ TxIdle /\ StIdle /\ RcuIdle /\ MonIdle /\ NmIdle
StopNext ==
    \/ EngineStart
    \/ EngineStop
    \/ StopFlag
    \/ StopJoin
    \/ EnginePause
    \/ EngineResume
    \/ \E core_id \in Cores :
          \/ EngineSubmitBounded(core_id, PauseTasks)
          \/ WorkerStep(core_id)
SpecStop ==
    /\ StopInit
    /\ [][StopNext]_vars
    /\ \A core_id \in Cores : WF_vars(WorkerStep(core_id))
    /\ WF_vars(StopFlag \/ StopJoin)

\* the LoadBalancer with its monitoring thread; every thread that runs is
\* scheduled again and again
MonitorInit ==
    /\ LBInit /\ SelIdle /\ EngIdle /\ QuInit /\ HLIdle /\ TxIdle /\ StIdle /\ RcuIdle
    /\ NmIdle
    /\ \E engine \in BOOLEAN : MonConstructed(engine)
SpecMonitor ==
    /\ MonitorInit
    /\ [][MonNext]_vars
    /\ \A m \in MonThreads : WF_vars(MonitorStep(m))

\* an engine that was not started: tasks are queued while a thread outside
\* the engine handles a core failure and sweeps the queues
DrainTasks == 2
DrainInit == LBIdle /\ SelIdle /\ EngIdle /\ QuInit /\ HLIdle /\ TxIdle /\ StIdle /\ RcuIdle /\ MonIdle /\ NmIdle
DrainNext ==
    \/ \E core_id \in Cores :
          \/ EngineSubmitBounded(core_id, DrainTasks)
          \/ ExtOptimize(core_id)
    \/ \E recovered \in BOOLEAN : HcfRecover(Ext, recovered)
    \/ HcfCollect(Ext)
    \/ HcfSubmit(Ext)
SpecDrain == DrainInit /\ [][DrainNext]_vars

\* the engine with healthy cores and cancellation of submitted tasks
CancelExecInit == LBIdle /\ SelIdle /\ EngIdle /\ QuInit /\ HLIdle /\ TxIdle /\ StIdle /\ RcuIdle /\ MonIdle /\ NmIdle
CancelExecNext ==
    \/ PauseNext
    \/ \E task \in 1 .. PauseTasks : EngineCancelTask(task)
SpecCancelExec == CancelExecInit /\ [][CancelExecNext]_vars

HLockInit == LBIdle /\ SelIdle /\ EngIdle /\ QuInit /\ HLIdle /\ TxIdle /\ StIdle /\ RcuIdle /\ MonIdle /\ NmIdle
SpecHLock == HLockInit /\ [][HLNext]_vars

\* several HierarchicalLock objects used by the same threads
NumMultiLocks == 2
MultiLockInit ==
    /\ LBIdle /\ SelIdle /\ EngIdle /\ QuInit /\ TxIdle /\ StIdle /\ RcuIdle /\ MonIdle /\ NmIdle
    /\ HLOf(NumMultiLocks, TRUE)
SpecMultiLock == MultiLockInit /\ [][HLNext]_vars

\* the same, with callers that call unlock() only on a lock they hold
NestedInit ==
    /\ HLOf(NumMultiLocks, TRUE)
    /\ LBIdle /\ SelIdle /\ EngIdle /\ QuInit /\ TxIdle /\ StIdle /\ RcuIdle /\ MonIdle /\ NmIdle
NestedNext ==
    \E t \in LockThreads :
        \/ \E l \in Locks, hierarchy \in Levels : HLockCall(t, l, hierarchy)
        \/ HLockCheck(t)
        \/ HLockAcquire(t)
        \/ \E l \in Locks : hl_owner[l] = t /\ HUnlock(t, l)
SpecNested == NestedInit /\ [][NestedNext]_vars

\* the NetworkManager with its cores and connections, and the ParentCore's
\* failure handling
NetworkInit ==
    /\ LBInit /\ SelIdle /\ EngIdle /\ QuInit /\ HLIdle /\ TxIdle /\ StIdle /\ RcuIdle
    /\ MonIdle /\ NmIdle
SpecNetwork == NetworkInit /\ [][NmNext]_vars

TxInit == LBIdle /\ SelIdle /\ EngIdle /\ QuInit /\ HLIdle /\ TxIdle /\ StIdle /\ RcuIdle /\ MonIdle /\ NmIdle
SpecTx == TxInit /\ [][TxNext]_vars

(***************************************************************************)
(* Claims about the LoadBalancer                                           *)
(***************************************************************************)
HealthyCores(metrics) == {c \in DOMAIN metrics : metrics[c].is_healthy}

\* C7: when the snapshot has a healthy core, find_least_loaded_core returns a
\* healthy core whose score 0.4*cpu + 0.3*mem + 0.3*net is minimal among the
\* healthy cores; it never returns a core whose is_healthy is false.
SelectsHealthyMinimum ==
    sel_called =>
        /\ sel_result # NoCore => sel_result \in HealthyCores(sel_metrics)
        /\ HealthyCores(sel_metrics) # {} =>
              /\ sel_result \in HealthyCores(sel_metrics)
              /\ \A c \in HealthyCores(sel_metrics) :
                    Load(sel_metrics[sel_result]) <= Load(sel_metrics[c])

\* a healthy core was selected although an unhealthy one has a lower score
SelectsHealthyMinimumWitness ==
    /\ sel_called
    /\ sel_result # NoCore
    /\ \E c \in DOMAIN sel_metrics :
          /\ ~sel_metrics[c].is_healthy
          /\ Load(sel_metrics[c]) < Load(sel_metrics[sel_result])
    /\ \E c \in HealthyCores(sel_metrics) :
          Load(sel_metrics[c]) > Load(sel_metrics[sel_result])

MinimalHealthy(metrics) ==
    {c \in HealthyCores(metrics) :
        \A d \in HealthyCores(metrics) : Load(metrics[c]) <= Load(metrics[d])}

\* C8: among the healthy cores of equal minimal score the routine returns the
\* lowest core_id, whatever the order in which the table iterates its cores.
LowestIdTieBreak ==
    (sel_called /\ sel_result # NoCore) =>
        \A c \in MinimalHealthy(sel_metrics) : sel_result <= c

StatusRoundTrip ==
    /\ (result.op = "submit_task" /\ result.status = "ok") =>
          get_task_status(result.id) \in {"PENDING", "RUNNING"}
    /\ \A task_id \in 0 .. (MaxTasks + 1) :
          get_task_status(task_id) = "UNKNOWN" => task_id \notin returned

\* submit_task has just returned an id
StatusRoundTripWitness ==
    /\ result.op = "submit_task"
    /\ result.status = "ok"
    /\ result.id \in returned
    /\ get_task_status(result.id) = "PENDING"

\* the call mark_core_unhealthy(core_id) -> handle_core_failure(core_id) of
\* thread t is over: blocked for ever on the mutex it owns, ended by the
\* system_error of the relock, or ended with the process by the recursion
HandleCoreFailureOver(t, core_id) ==
    \/ pc[t] = "mark_deadlocked" /\ pending[t].core = core_id
    \/ crashed /\ pc[t] = "mark_relock" /\ pending[t].core = core_id
    \/ /\ pc[t] = "idle"
       /\ result = [op |-> "mark_core_unhealthy", status |-> "system_error",
                    id |-> 0, core |-> core_id]

\* C6: Scenario B: once handle_core_failure(c) is over, no task is assigned to
\* c any more (all of them were moved to other cores) and c is unhealthy
FailedCoreEvacuated ==
    \A t \in Threads : \A core_id \in DOMAIN core_metrics_ :
        HandleCoreFailureOver(t, core_id) =>
            /\ ~core_metrics_[core_id].is_healthy
            /\ FailedTasks(core_id) = {}

RECURSIVE Occurrences(_, _)
Occurrences(q, task_id) ==
    IF q = <<>> THEN 0
    ELSE (IF Head(q) = task_id THEN 1 ELSE 0) + Occurrences(Tail(q), task_id)

RECURSIVE Copies(_, _)
Copies(cs, task_id) ==
    IF cs = {} THEN 0
    ELSE LET c == CHOOSE x \in cs : TRUE
         IN  Occurrences(net_tasks[c], task_id) + Copies(cs \ {c}, task_id)

\* C2: no task is held in two core queues at once, and none twice in one
\* queue: moving a task to another core never leaves a copy behind
NoTaskCopied ==
    \A task_id \in DOMAIN tasks_ : Copies(Cores, task_id) <= 1

\* the tasks submit_task has accepted
Submitted == 1 .. (next_task - 1)

\* a task is held: in a core's queue, popped by a worker, or in the hands of a
\* running redistribute_tasks
Held(task) ==
    \/ \E c \in Cores : task \in Range(task_queue[c])
    \/ \E c \in Cores : worker_task[c] = task
    \/ \E t \in HcfThreads : task \in Range(failed_tasks[t])

\* C3: a submitted task that has not been executed is always held somewhere;
\* the redistribution never drops it, also when no core can take it
NoTaskLost ==
    \A task \in Submitted : task \in executed \/ Held(task)

\* C4: after two back-to-back calls of handle_core_failure for one core whose
\* recovery failed, each task that was queued on that core before the first
\* call (and was not executed meanwhile) has been migrated exactly once
BackToBackMigratesOnce ==
    (ext_calls.n = 2 /\ ext_calls.thrown = 2) =>
        \A task \in ext_calls.before \ executed : moved[task] = 1

\* the threads inside handle_core_failure(core_id)
InFlight(core_id) ==
    {t \in HcfThreads : hcf_pc[t] # "none" /\ hcf_core[t] = core_id}

\* C5: handle_core_failure is single-flight per core: at no time are two
\* threads inside handle_core_failure for the same core
SingleFlight ==
    \A core_id \in Cores : Cardinality(InFlight(core_id)) <= 1

\* C1: no item is returned by two pops, only pushed items are popped, and
\* after a final drain (a dequeue that began after every enqueue had returned
\* found the queue empty) every pushed item has been popped
QueueSoundness ==
    /\ \A i, j \in 1 .. Len(popped) : popped[i] = popped[j] => i = j
    /\ \A i \in 1 .. Len(popped) : enq_pc[popped[i]] # "idle"
    /\ drained => Range(popped) = Producers

\* rebalance_load's test of lines 211-213 on one entry
IsOverloaded(m) == m.cpu > 8 \/ m.mem > 8 \/ m.net > 8

\* the call rebalance_load() of thread t is over: it returned, it ended with
\* the system_error of the relock, or it is blocked for ever on its own mutex
RebalanceOver(t) ==
    \/ pc[t] = "redistribute_deadlocked"
    \/ pc[t] = "idle" /\ result.op = "rebalance_load"

\* C11: once rebalance_load() is over, no task is still assigned to a core
\* whose cpu, memory or network usage exceeds 0.8
OverloadedEvacuated ==
    \A t \in Threads : RebalanceOver(t) =>
        \A core_id \in DOMAIN core_metrics_ :
            IsOverloaded(core_metrics_[core_id]) => FailedTasks(core_id) = {}

\* C12: the pause flag is consulted before each pop: the worker never goes
\* from the end of one task to popping the next one while its core is paused
PauseConsultedBeforePop ==
    [][\A core_id \in Cores :
          (worker_pc[core_id] = "drain_next" /\ worker_pc'[core_id] = "pop")
              => ~paused[core_id]]_vars

\* C13: lock(level) by a thread whose current level is >= level fails with
\* InvalidHierarchy, and the failed call changes neither a lock word nor
\* the thread's current level
InvalidHierarchyRejected ==
    [][\A t \in LockThreads :
          (/\ hl_pc[t] = "check"
           /\ hl_pc'[t] # "check"
           /\ hl_call[t].hierarchy <= current_hierarchy[t])
              => /\ hl_result'[t] = "InvalidHierarchy"
                 /\ hl_pc'[t] = "idle"
                 /\ lock_' = lock_
                 /\ current_hierarchy' = current_hierarchy]_vars
\* a thread that holds a level was refused a lower or equal one
InvalidHierarchyRejectedWitness ==
    \E t \in LockThreads :
        /\ hl_result[t] = "InvalidHierarchy"
        /\ current_hierarchy[t] > 1
        /\ \E l \in Locks : lock_[l] = current_hierarchy[t]

\* C14: when stop() returns, no task that was queued when stop() was called
\* is still sitting in a core's queue (stop() returns nothing and the engine
\* has no Cancelled status, so such a task is silently discarded)
NoTaskLeftQueuedByStop ==
    [][(ctl_pc = "stop_join" /\ ctl_pc' = "idle")
          => \A task \in at_stop :
                 \A core_id \in Cores : task \notin Range(task_queue'[core_id])]_vars

\* C15: when the processing of one item ends, with an error or without,
\* the worker is back at the test of its drain loop, the items still queued
\* are untouched and the core has not been declared failed
ErrorKeepsWorkerDraining ==
    [][\A core_id \in Cores :
          (tx_pc[core_id] = "try" /\ tx_pc'[core_id] # "try")
              => /\ tx_pc'[core_id] = "loop"
                 /\ tx_queue'[core_id] = tx_queue[core_id]
                 /\ tx_failures'[core_id] = tx_failures[core_id]]_vars

\* C16: no thread holds metrics_mutex_ and task_mutex_ at the same time
LocksNeverHeldTogether ==
    \A t \in Threads : ~(metrics_mutex_ = t /\ task_mutex_ = t)

\* C17: no thread reads the next pointer of a node that has been deleted:
\* an enqueue that loads tail->next does so on an allocated node
NoReadOfDeletedNode ==
    [][\A p \in Producers :
          (enq_pc[p] = "load_next" /\ enq_pc'[p] = "check")
              => node_live[enq_tail[p]]]_vars

\* the lifecycle state a worker's flags stand for; Created and Stopped are
\* both "not running"
WorkerState(core_id) ==
    IF ~running[core_id] THEN "Stopped"
    ELSE IF paused[core_id] THEN "Paused" ELSE "Running"
ListedTransitions ==
    {<<"Stopped", "Running">>, <<"Running", "Paused">>,
     <<"Paused", "Running">>, <<"Running", "Stopped">>}
\* C18: a worker changes state only along the listed transitions: started
\* into Running, Running to Paused by pause(), Paused to Running by resume(),
\* Running to Stopped by stop()
OnlyListedTransitions ==
    [][\A core_id \in Cores :
          \/ WorkerState(core_id)' = WorkerState(core_id)
          \/ <<WorkerState(core_id), WorkerState(core_id)'>> \in ListedTransitions]_vars

CoreUnhealthy(core_id) ==
    core_id \in DOMAIN core_metrics_ /\ ~core_metrics_[core_id].is_healthy
CoreHealthy(core_id) ==
    core_id \in DOMAIN core_metrics_ /\ core_metrics_[core_id].is_healthy
\* C19: a core that has failed is eventually recovered: whenever a core is
\* unhealthy, is_core_healthy(core) becomes true again later
FailedCoreRecovers ==
    \A core_id \in Cores : CoreUnhealthy(core_id) ~> CoreHealthy(core_id)

\* C20: a cancel_task(id) that has ended leaves status Cancelled for an id
\* that submit_task returned, and changes no status and no task table for
\* an id that was never submitted
CancelRoundTrip ==
    [][(result'.op = "cancel_task" /\ result' # result)
              => IF result'.id \in returned
                 THEN /\ result'.id \in DOMAIN task_status_'
                      /\ task_status_'[result'.id] = "CANCELLED"
                      /\ tasks_' = tasks_
                 ELSE /\ task_status_' = task_status_
                      /\ tasks_' = tasks_
                      /\ net_tasks' = net_tasks]_vars
\* a submitted task was cancelled and get_task_status reports it
CancelRoundTripWitness ==
    /\ result.op = "cancel_task"
    /\ result.id \in returned
    /\ get_task_status(result.id) = "CANCELLED"

TerminalStatuses == {"COMPLETED", "CANCELLED", "FAILED"}
\* C21: a status that is Completed, Cancelled or Failed is never changed by
\* a later operation, in the LoadBalancer's table and in the table of the
\* manager the task was handed to
TerminalStatusKept ==
    [][/\ \A task_id \in DOMAIN task_status_ :
             task_status_[task_id] \in TerminalStatuses
                 => task_status_'[task_id] = task_status_[task_id]
       /\ \A task_id \in DOMAIN net_status :
             net_status[task_id] \in TerminalStatuses
                 => net_status'[task_id] = net_status[task_id]]_vars

\* C22: a task that was cancelled while it was queued is never executed:
\* the worker does not go from the pop to execute() with a cancelled task
CancelledTaskSkipped ==
    [][\A core_id \in Cores :
          (worker_pc[core_id] = "pop" /\ worker_pc'[core_id] = "exec")
              => worker_task'[core_id] \notin cancelled]_vars

\* C23: when the sweep that follows a failed recovery is over, no task is
\* queued on the core whose failure was being handled
SweepDrainsFailedCore ==
    [][\A t \in HcfThreads :
          (hcf_pc[t] \in {"collect", "submit"} /\ hcf_pc'[t] = "none")
              => task_queue'[hcf_core[t]] = <<>>]_vars

Pos(p) ==
    IF \E i \in 1 .. Len(popped) : popped[i] = p
    THEN CHOOSE i \in 1 .. Len(popped) :
            popped[i] = p /\ \A j \in 1 .. (i - 1) : popped[j] # p
    ELSE 0

\* C25: the queue is FIFO: when enqueue(a) returned before enqueue(b) began
\* and b has been dequeued, a was dequeued before it
QueueFifo ==
    \A b \in Producers : \A a \in enq_before[b] :
        Pos(b) # 0 => (Pos(a) # 0 /\ Pos(a) < Pos(b))

\* the step in which a dequeue finds the queue empty and ends
EmptyDequeueEnds ==
    /\ deq_pc = "check"
    /\ deq_head = head_ /\ deq_head = deq_tail /\ deq_next = Null
    /\ deq_pc' = "idle"

\* C26: a dequeue on the empty queue returns the empty result and leaves
\* the queue as it was: head_ and tail_ unchanged and no node touched
EmptyDequeueReturnsNone ==
    [][EmptyDequeueEnds =>
          /\ deq_result' = "false"
          /\ <<head_, tail_, node_data, node_next, node_live>>'
                 = <<head_, tail_, node_data, node_next, node_live>>]_vars

\* the part of C26 about the queue itself, whatever the empty result is
EmptyDequeueKeepsQueue ==
    [][EmptyDequeueEnds =>
          <<head_, tail_, node_data, node_next, node_live>>'
              = <<head_, tail_, node_data, node_next, node_live>>]_vars

\* a pop has unlinked the node of value p and is about to return it
BeingPopped(p) ==
    \E q \in Poppers :
        /\ pop_pc[q] = "take"
        /\ stack_live[pop_old[q]]
        /\ stack_data[pop_old[q]] = p

\* C27: under concurrent push and pop no value is returned by two pops, only
\* pushed values are popped, and no value is lost: once a pop that began
\* after every push had returned finds the stack empty, every pushed value
\* has been popped or is being returned by a pop in progress
StackSoundness ==
    /\ \A i, j \in 1 .. Len(stack_popped) :
          stack_popped[i] = stack_popped[j] => i = j
    /\ \A i \in 1 .. Len(stack_popped) : push_pc[stack_popped[i]] # "idle"
    /\ stack_drained =>
          \A p \in Pushers : p \in Range(stack_popped) \/ BeingPopped(p)

\* C28: the queue is lock-free: while the other threads keep running, every
\* enqueue of a running thread returns and every dequeue call returns,
\* wherever the suspended thread stopped in its own enqueue
QueueLockFree ==
    /\ \A p \in (1 .. NumProducers) \ {Suspended} : <>(enq_pc[p] = "done")
    /\ (deq_pc # "idle") ~> (deq_pc = "idle")

\* C29: synchronize() returns only when the version counter differs from the
\* value it read at its call, and the construction of an RCUGuard is one
\* step that is always possible and leaves every version counter unchanged
SynchronizeWaitsForAdvance ==
    [][\A t \in RcuThreads :
          /\ (rcu_pc[t] = "spin" /\ rcu_pc'[t] = "idle")
                => version_[t] # rcu_cur[t]
          /\ rcu_guards'[t] > rcu_guards[t] => version_' = version_]_vars

\* a thread waits in synchronize() on the value it read while another
\* thread has constructed a guard
SynchronizeWaitsWitness ==
    \E t, u \in RcuThreads :
        /\ t # u
        /\ rcu_pc[t] = "spin"
        /\ version_[t] = rcu_cur[t]
        /\ rcu_guards[u] > 0

\* C30: stop() terminates: once stop() has begun on a started engine, every
\* worker leaves its loop, every join returns and stop() returns
StopTerminates == (ctl_pc = "stop_flag") ~> (ctl_pc = "idle")

\* C32: mark_core_unhealthy on a core of the metrics table returns: once it
\* has set is_healthy to false, its next step is its return, with the mutex
\* released, and not a second entry into mark_core_unhealthy, a wait on the
\* mutex it holds or an exception
MarkCoreUnhealthyReturns ==
    [][\A t \in Threads :
          pc[t] = "mark_relock"
              => /\ pc'[t] = "idle"
                 /\ result'.op = "mark_core_unhealthy"
                 /\ result'.status = "ok"
                 /\ metrics_mutex_' = NoThread
                 /\ result'.core \in DOMAIN core_metrics_'
                 /\ ~core_metrics_'[result'.core].is_healthy]_vars

\* C31: every tick of the monitor completes: once the monitoring thread has
\* taken metrics_mutex_ with at least one core in the table, it finishes the
\* health pass and optimize_distribution and reaches the sleep
MonitorTickCompletes ==
    \A m \in MonThreads :
        (mon_pc[m] = "health" /\ core_order # <<>>) ~> (mon_pc[m] = "sleep")

\* C33: a core marked unhealthy stays unhealthy under the monitor: no step of
\* a monitoring thread sets is_healthy back to true for an unhealthy core
UnhealthyStaysUnhealthy ==
    [][\A core_id \in Cores :
          (CoreUnhealthy(core_id) /\ \E m \in MonThreads : mon_pc'[m] # mon_pc[m])
              => /\ core_id \in DOMAIN core_metrics_'
                 /\ ~core_metrics_'[core_id].is_healthy]_vars

\* C34: HierarchicalLock gives mutual exclusion: a lock whose lock() returned
\* to a thread stays that thread's until the thread's own unlock(); no step
\* of another thread releases it or takes it
HierarchicalLockExclusive ==
    [][\A l \in Locks :
          (hl_owner[l] # 0 /\ hl_owner'[l] # hl_owner[l])
              => /\ current_hierarchy[hl_owner[l]] # 0
                 /\ current_hierarchy'[hl_owner[l]] = 0]_vars

\* the levels of the locks whose lock() returned to thread t and that were
\* not released since
HeldLevels(t) == {lock_[l] : l \in {k \in Locks : hl_owner[k] = t}}
\* C35: with several HierarchicalLock objects a thread's current level is
\* the highest level among the locks it holds, and 0 when it holds none
LevelIsHighestHeld ==
    \A t \in LockThreads :
        /\ HeldLevels(t) = {} => current_hierarchy[t] = 0
        /\ HeldLevels(t) # {} =>
              /\ current_hierarchy[t] \in HeldLevels(t)
              /\ \A v \in HeldLevels(t) : v <= current_hierarchy[t]

\* C36: every call of RCUGuard::synchronize() eventually returns: a thread
\* that waits in the loop of synchronize() leaves it
SynchronizeReturns ==
    \A t \in RcuThreads : (rcu_pc[t] = "spin") ~> (rcu_pc[t] = "idle")

RECURSIVE ChainFrom(_, _)
\* the nodes met from node a in at most k steps along next
ChainFrom(a, k) ==
    IF a = Null \/ k = 0 THEN {} ELSE {a} \cup ChainFrom(node_next[a], k - 1)
RECURSIVE EndsInNull(_, _)
\* the list from node a reaches next == null within k nodes
EndsInNull(a, k) ==
    IF a = Null THEN TRUE
    ELSE IF k = 0 THEN FALSE
    ELSE EndsInNull(node_next[a], k - 1)
\* C37: structural invariant of the Michael-Scott queue: the list from head_
\* is made of allocated nodes, is acyclic and ends in a node with next ==
\* null, tail_ is on it, and tail_ is the last node or the one before it
QueueWellFormed ==
    /\ EndsInNull(head_, Cardinality(Addrs))
    /\ \A a \in ChainFrom(head_, Cardinality(Addrs)) : node_live[a]
    /\ tail_ \in ChainFrom(head_, Cardinality(Addrs))
    /\ \/ node_next[tail_] = Null
       \/ node_next[node_next[tail_]] = Null

\* C38: stop() waits for the monitoring thread: after stop() has returned no
\* monitoring thread is inside a tick of monitor_cores or blocked in it, and
\* whatever the sequence of start() and stop() at most one monitoring thread
\* runs
StopWaitsForMonitor ==
    /\ lb_stopped =>
          \A m \in MonThreads :
              mon_pc[m] \notin {"collect", "lock", "health", "optimize", "blocked"}
    /\ Cardinality(LiveMonitors) <= 1

\* C39: failure handling of one core is isolated to that core: a call of
\* ParentCore::handle_core_failure(c) whose recovery succeeds leaves the
\* NetworkCore object and the running state of every other core as they were
FailureIsolated ==
    [][(cores_ # <<>> /\ net_objects' # net_objects)
          => \A core_id \in DOMAIN cores_ \ {parent_result'.core} :
                cores_'[core_id] = cores_[core_id]]_vars

\* C40: an id handed out by connect is greater than 0 and is not the id of a
\* connection that is still open: connect never replaces a live connection
ConnectIdsFresh ==
    [][conn_opened' # conn_opened
          => /\ conn_id' > 0
             /\ conn_id' \notin DOMAIN connections_]_vars
====
